---- MODULE Spec2Model ----
(***************************************************************************)
(* Wireless command decoder and setpoint hand-over of the single-axis FOC  *)
(* motor controller node (Ble_Handler.cpp, FOC_Control.cpp).               *)
(*                                                                         *)
(* Numbers.  The firmware keeps the setpoint in a 32-bit float.  The model *)
(* keeps it as an integer count of 1/1000 (UNIT) of the wire unit, which   *)
(* is exact for every scale used on the wire (10, 5, 1000 all divide       *)
(* UNIT).  The two places where float32 rounding decides an outcome are    *)
(* made explicit inputs of the decode step: the comparison                 *)
(* fabs(new - old) > 0.001f when the exact difference is 0.001 (fgt), and  *)
(* the "%.2f" formatting of a value that lies half-way between two         *)
(* hundredths (up).  Both outcomes occur on the target for different       *)
(* operands, so each is left open.                                         *)
(*                                                                         *)
(* Bytes.  std::string holds char; on the ESP32 toolchains char is         *)
(* unsigned, so data[i] == 0xAA compares a value in 0..255.                *)
(***************************************************************************)
EXTENDS Integers, Sequences, FiniteSets, TLC

VARIABLES
    ble_motor_target,       \* float ble_motor_target, in 1/UNIT of the wire unit
    new_command,            \* bool new_command (dirty flag)
    data_scale_type,        \* uint8_t data_scale_type
    last_multi_struct_cmd,  \* MultiStructParsed last_multi_struct_cmd
    deviceConnected,        \* bool deviceConnected
    motor_target,           \* float motor_target, in GEAR units (see RadUnits)
    last_target,            \* static float last_target of getSerialMotorTarget
    op,                     \* the operation that produced this state
    rx,                     \* the byte sequence handed to the last decode call
    pre,                    \* decoder-visible state before the last operation
    acks,                   \* arguments of sendBLEResponse during the last operation
    sent,                   \* notifications actually transmitted during the last operation
    reads,                  \* byte indices (0-based) the last decode call read
    path,                   \* the branch in which the last decode call ended
    branch,                 \* the arm of the de-duplication test it took
    now,                    \* millis(), in counts of MS_PER_COUNT ms
    lastHeartbeat,          \* static unsigned long lastHeartbeat of BLE_Server_Loop
    oldDeviceConnected,     \* bool oldDeviceConnected
    heartbeat,              \* notifications sent by the last BLE_Server_Loop call
    beats,                  \* number of heartbeats transmitted so far
    since,                  \* time elapsed since the last heartbeat (-1: none yet)
    ticks,                  \* number of time advances so far
    serial_in,              \* characters waiting in the serial receive buffer
    received_chars,         \* static String received_chars of readSerialCommand
    consumed,               \* every character readSerialCommand has read so far
    mechanical_angle,       \* S0.getMechanicalAngle(), in ANGLE units of 2^-25 rad
    zero_electric_angle,    \* float zero_electric_angle, in the same units
    PP,                     \* int PP (pole pairs)
    DIR,                    \* int DIR (direction sign)
    voltage_power_supply,   \* float voltage_power_supply, in 1/UNIT volt
    Ualpha,                 \* float Ualpha, in 1/UNIT volt
    Ubeta,                  \* float Ubeta
    Ua,                     \* float Ua
    Ub,                     \* float Ub
    Uc,                     \* float Uc
    dc,                     \* <<dc_a, dc_b, dc_c>> of the last setPwm call, in 1/UNIT
    ledc,                   \* duty written to the PWM channels 0, 1, 2 (8 bit)
    angle_el,               \* value returned by the last electricalAngle() call
    torque_call,            \* arguments of the last setTorque call and the supply it read
    calibrations,           \* number of calibrateSensor calls so far
    codec,                  \* one round trip through floatToInt16 / int16ToFloat
    pwm,                    \* locals of the last setTorque / setPwm call and its ledcWrite calls
    iq_ref,                 \* iq_ref of the last setMotorVelocityWithAngle call
    cal_pc,                 \* the statement calibrateSensor executes next
    steps,                  \* the statements calibrateSensor has executed in this call
    pins,                   \* CS_M0.pinA, pinB, pinC
    offsets,                \* CS_M0.offset_ia, offset_ib, offset_ic, in 1/OFFSET_UNIT ADC count
    currents,               \* CS_M0.current_a, current_b, current_c, in the same unit times A/V
    cs_call,                \* the last CurrSense operation and the samples it took
    dec_pc,                 \* the statement a decode call in progress executes next
    tick_pc,                \* the statement a getSerialMotorTarget call in progress executes next
    dec_target,             \* float new_target of the decode call in progress
    tick_deg                \* float out_deg of the getSerialMotorTarget call in progress

vars == <<ble_motor_target, new_command, data_scale_type, last_multi_struct_cmd,
          deviceConnected, motor_target, last_target, op, rx, pre, acks, sent,
          reads, path, branch, now, lastHeartbeat, oldDeviceConnected,
          heartbeat, beats, since, ticks, serial_in, received_chars, consumed,
          mechanical_angle, zero_electric_angle, PP, DIR, voltage_power_supply,
          Ualpha, Ubeta, Ua, Ub, Uc, dc, ledc, angle_el, torque_call,
          calibrations, codec, pwm, iq_ref, cal_pc, steps, pins, offsets,
          currents, cs_call, dec_pc, tick_pc, dec_target, tick_deg>>

\* the state of BLE_Server_Loop and of the clock
loopVars == <<now, lastHeartbeat, oldDeviceConnected, heartbeat, beats, since,
              ticks>>

\* the state of the serial text channel
serialVars == <<serial_in, received_chars, consumed>>

\* the state of the coordinate transform (FOC_Core.cpp) and the round trip
\* record of the wire encoding
focVars == <<mechanical_angle, zero_electric_angle, PP, DIR,
             voltage_power_supply, Ualpha, Ubeta, Ua, Ub, Uc, dc, ledc,
             angle_el, torque_call, calibrations, pwm>>

\* the state of the control cascade and of a calibration in progress
ctlVars == <<iq_ref, cal_pc, steps>>

\* the state of the current sensor CS_M0
senseVars == <<pins, offsets, currents, cs_call>>

\* the positions and locals of a decode call and a control tick that run
\* concurrently
raceVars == <<dec_pc, tick_pc, dec_target, tick_deg>>

codecVars == <<codec>>

\* the state of the wireless decoder, of the setpoint hand-over and of the
\* record of the last decode call
bleVars == <<ble_motor_target, new_command, data_scale_type,
             last_multi_struct_cmd, deviceConnected, motor_target, last_target,
             op, rx, pre, acks, sent, reads, path, branch>>

----------------------------------------------------------------------------
(* Program constants *)

PACKET_TYPE_SINGLE == 1
PACKET_TYPE_MULTI == 2
PACKET_TYPE_MULTI_STRUCT == 3
DATA_TYPE_ANGLE == 0
DATA_TYPE_VELOCITY == 1
DATA_TYPE_CURRENT == 2
ANGLE_SCALE == 10
VELOCITY_SCALE == 5
CURRENT_SCALE == 1000
MAX_MOTORS == 10
MY_DEVICE_ID == 6
GEAR_RATIO == 225
FRAME_HEAD_0 == 170
FRAME_HEAD_1 == 85
LEGACY_LEN == 24
LEGACY_MOTORS == 10

\* the clock counts MS_PER_COUNT ms: unsigned long millis() wraps at 2^32 ms,
\* that is at 2^30 counts
MS_PER_COUNT == 4
MILLIS_MOD == 1073741824
\* 5000 ms and 500 ms in counts
HEARTBEAT_PERIOD == 1250
RESTART_DELAY == 125

\* motor_target counts (pi/180)/UNIT rad; one radian is 57295.78 of them
RAD_UNITS == 57296

\* 1/UNIT of the wire unit is the model's unit of ble_motor_target
UNIT == 1000
\* 0.001f in 1/UNIT
EPS_BLE == 1
\* 0.0001f rad in units of (pi/180)/UNIT rad is 5.7296: an integer difference
\* exceeds it exactly when it exceeds 5
EPS_RAD == 5

----------------------------------------------------------------------------
(* Bounds of the model *)

\* entries carried by the generated MULTI_STRUCT frames
MaxEntries == 2
\* values carried by the generated short MULTI slice frames
MaxSlice == 2
\* extra trailing bytes appended to generated frames
MaxPad == 1
\* bytes cut from the end of generated frames
MaxCut == 2
\* advances of the clock in one run
MaxTicks == 5
\* characters arriving on the serial channel in one run
MaxSerial == 5

----------------------------------------------------------------------------
(* Arithmetic helpers *)

Abs(x) == IF x < 0 THEN 0 - x ELSE x

Bytes == 0..255

\* uint8_t arithmetic: the value is reduced modulo 2^8
U8(x) == x % 256

\* the same two bytes read without sign extension
ToInt16_NoSign(hi, lo) == hi * 256 + lo

\* (int16_t)((hi << 8) | lo): big-endian, two's complement
ToInt16(hi, lo) ==
    LET w == hi * 256 + lo IN IF w >= 32768 THEN w - 65536 ELSE w

\* (float)value / scale, in 1/UNIT
int16ToFloat(value, scale) == (value * UNIT) \div scale

\* fabs(new - old) > 0.001f; fgt is the float32 outcome when the exact
\* difference is 0.001
Differs(new, old, fgt) ==
    LET d == Abs(new - old) IN IF d = EPS_BLE THEN fgt ELSE d > EPS_BLE

\* "%.2f" of a value in 1/UNIT, as a count of hundredths; up is the float32
\* outcome for a value half-way between two hundredths
Fmt2(v, up) ==
    LET q == v \div 10
        r == v % 10
    IN  IF r < 5 THEN q ELSE IF r > 5 THEN q + 1 ELSE IF up THEN q + 1 ELSE q

----------------------------------------------------------------------------
(* parseDirectCommandData, branch by branch.  st is the decoder-visible    *)
(* state [target, new_command, dst, last]; o is [fgt, up]: the two float32 *)
(* outcomes above.                                                         *)

\* what a read past the end of the string yields: no byte value.  No call
\* performs such a read (see the reads recorded by every branch), so the
\* model never consumes it
Indeterminate == 256

\* data[i] for a 0-based index i
Byte(data, i, o) == IF i < Len(data) THEN data[i + 1] ELSE Indeterminate

\* the debug dump at the head of the function reads every byte of the frame
DumpReads(data) == 0..(Len(data) - 1)

\* what one call leaves behind: the decoder-visible state, the responses
\* handed to sendBLEResponse, the indices read, the branch the call ended in
\* and the arm of the de-duplication test it took ("none" when not reached)
Result(st, a, r, p, b) ==
    [target |-> st.target, new_command |-> st.new_command, dst |-> st.dst,
     last |-> st.last, acks |-> a, reads |-> r, path |-> p, branch |-> b]

Arm(st, new, o) == IF Differs(new, st.target, o.fgt) THEN "stored" ELSE "repeat"

IsPacketType(b) ==
    b \in {PACKET_TYPE_SINGLE, PACKET_TYPE_MULTI, PACKET_TYPE_MULTI_STRUCT}

\* has_frame_header: AA 55 and a recognised packet type in the third byte
HasFrameHeader(data, o) ==
    /\ Len(data) >= 2
    /\ Byte(data, 0, o) = FRAME_HEAD_0
    /\ Byte(data, 1, o) = FRAME_HEAD_1
    /\ Len(data) >= 3
    /\ IsPacketType(Byte(data, 2, o))

PacketType(data, hdr, o) == IF hdr THEN Byte(data, 2, o) ELSE Byte(data, 0, o)

Ack(kind, v, o) == [id |-> MY_DEVICE_ID, kind |-> kind, val |-> Fmt2(v, o.up)]

ErrorAck == [id |-> MY_DEVICE_ID, kind |-> "ERROR:UNKNOWN_PACKET", val |-> 0]

\* a de-duplication whose else arm raises the flag
ApplyTarget_Rearm(st, new, o) ==
    IF Differs(new, st.target, o.fgt)
        THEN [st EXCEPT !.target = new, !.new_command = TRUE]
        ELSE [st EXCEPT !.new_command = TRUE]

\* if (fabs(new - ble_motor_target) > 0.001f) { store; new_command = true }
\* else { new_command = false }
ApplyTarget(st, new, o) ==
    IF Differs(new, st.target, o.fgt)
        THEN [st EXCEPT !.target = new, !.new_command = TRUE]
        ELSE [st EXCEPT !.new_command = FALSE]

SingleMinLength(hdr) == IF hdr THEN 7 ELSE 6

SingleIdOffset(hdr) == IF hdr THEN 4 ELSE 1

SingleTypeOffset(hdr) == IF hdr THEN 3 ELSE 2

SingleValueOffset(hdr) == IF hdr THEN 5 ELSE 3

ParseSingle(data, hdr, st, o) ==
    LET id_offset == SingleIdOffset(hdr)
        type_offset == SingleTypeOffset(hdr)
        value_offset == SingleValueOffset(hdr)
        target_id == Byte(data, id_offset, o)
        target_int == ToInt16(Byte(data, value_offset, o),
                              Byte(data, value_offset + 1, o))
        new_target == int16ToFloat(target_int, ANGLE_SCALE)
        st2 == ApplyTarget(st, new_target, o)
    IN  IF Len(data) < SingleMinLength(hdr)
            THEN Result(st, <<>>, DumpReads(data), "single_short", "none")
        ELSE IF target_id # MY_DEVICE_ID
            THEN Result([st EXCEPT !.new_command = FALSE], <<>>,
                        DumpReads(data) \cup {id_offset, type_offset},
                        "single_miss", "none")
        ELSE Result(st2, <<Ack("SINGLE", st2.target, o)>>,
                    DumpReads(data) \cup {id_offset, type_offset, value_offset,
                                          value_offset + 1},
                    "single", Arm(st, new_target, o))

ScaleOf(dt) ==
    IF dt = DATA_TYPE_VELOCITY THEN VELOCITY_SCALE
    ELSE IF dt = DATA_TYPE_CURRENT THEN CURRENT_SCALE
    ELSE ANGLE_SCALE

ScaleTypeOf(dt) ==
    IF dt = DATA_TYPE_VELOCITY THEN 1
    ELSE IF dt = DATA_TYPE_CURRENT THEN 2
    ELSE 0

\* uint8_t end_id = start_id + count - 1; !(my_id < start_id || my_id > end_id)
SliceInRange(my_id, start_id, count) ==
    LET end_id == U8(start_id + count - 1)
    IN  ~(my_id < start_id \/ my_id > end_id)

SliceIdsOk(start_id, count) ==
    start_id >= 1 /\ start_id <= MAX_MOTORS /\ count >= 1

\* a length test that lets trailing bytes pass
SliceLenOk_AtLeast(len, data_start_offset, count) ==
    len >= data_start_offset + count * 2

SliceLenOk(len, data_start_offset, count) ==
    len = data_start_offset + count * 2

SliceIndex(my_id, start_id) == my_id - start_id

\* the decode / de-duplicate / acknowledge tail shared by the two MULTI forms
MultiApply(data, st1, scale, data_offset, rd, p, o) ==
    LET target_int == ToInt16(Byte(data, data_offset, o),
                              Byte(data, data_offset + 1, o))
        new_target == int16ToFloat(target_int, scale)
        st2 == ApplyTarget(st1, new_target, o)
    IN  Result(st2, <<Ack("MULTI", st2.target, o)>>,
               rd \cup {data_offset, data_offset + 1}, p,
               Arm(st1, new_target, o))

ParseMultiLegacy(data, hdr, st1, scale, type_offset, rd, o) ==
    LET data_start_offset == type_offset + 1
        idx == MY_DEVICE_ID - 1
        data_offset == data_start_offset + idx * 2
    IN  IF hdr /\ Len(data) = LEGACY_LEN
            THEN IF MY_DEVICE_ID < 1 \/ MY_DEVICE_ID > LEGACY_MOTORS
                    THEN Result(st1, <<>>, rd, "legacy_miss", "none")
                 ELSE IF data_offset + 2 > Len(data)
                    THEN Result(st1, <<>>, rd, "legacy_bounds", "none")
                 ELSE MultiApply(data, st1, scale, data_offset, rd, "legacy", o)
            ELSE Result(st1, <<>>, rd, "multi_invalid", "none")

ParseMulti(data, hdr, st, o) ==
    LET type_offset == IF hdr THEN 3 ELSE 1
        data_type == Byte(data, type_offset, o)
        scale == ScaleOf(data_type)
        st1 == [st EXCEPT !.dst = ScaleTypeOf(data_type)]
        rd1 == DumpReads(data) \cup {type_offset}
        start_id_offset == type_offset + 1
        count_offset == type_offset + 2
        data_start_offset == type_offset + 3
        start_id == Byte(data, start_id_offset, o)
        count == Byte(data, count_offset, o)
        rd2 == rd1 \cup {start_id_offset, count_offset}
        data_offset == data_start_offset + SliceIndex(MY_DEVICE_ID, start_id) * 2
    IN  IF Len(data) <= type_offset
            THEN Result(st, <<>>, DumpReads(data), "multi_short", "none")
        ELSE IF hdr /\ Len(data) >= 6
            THEN IF SliceIdsOk(start_id, count)
                    /\ SliceLenOk(Len(data), data_start_offset, count)
                    THEN IF ~SliceInRange(MY_DEVICE_ID, start_id, count)
                            THEN Result(st1, <<>>, rd2, "slice_miss", "none")
                         ELSE IF data_offset + 2 > Len(data)
                            THEN Result(st1, <<>>, rd2, "slice_bounds", "none")
                         ELSE MultiApply(data, st1, scale, data_offset, rd2,
                                         "slice", o)
                    ELSE ParseMultiLegacy(data, hdr, st1, scale, type_offset,
                                          rd2, o)
        ELSE ParseMultiLegacy(data, hdr, st1, scale, type_offset, rd1, o)

StructItemOffset(items_offset, i) == items_offset + i * 3

\* a scan that runs to the end and keeps the last match
RECURSIVE StructScanLast(_, _, _, _, _)
StructScanLast(data, items_offset, count, i, o) ==
    IF i >= count THEN -1
    ELSE LET later == StructScanLast(data, items_offset, count, i + 1, o)
         IN  IF later >= 0 THEN later
             ELSE IF Byte(data, StructItemOffset(items_offset, i), o) = MY_DEVICE_ID
                 THEN i
             ELSE -1

\* for (i = 0; i < count; i++) { if (id == my_id) { ...; break; } }: the index
\* of the entry the loop stops at, -1 when it runs to the end
RECURSIVE StructScan(_, _, _, _, _)
StructScan(data, items_offset, count, i, o) ==
    IF i >= count THEN -1
    ELSE IF Byte(data, StructItemOffset(items_offset, i), o) = MY_DEVICE_ID THEN i
    ELSE StructScan(data, items_offset, count, i + 1, o)

\* the bytes the loop reads when it visits entries 0..n-1
StructReads(items_offset, n) ==
    UNION {{StructItemOffset(items_offset, i),
            StructItemOffset(items_offset, i) + 1,
            StructItemOffset(items_offset, i) + 2} : i \in 0..(n - 1)}

\* a length test that covers the header only
StructExpectedMinLen_Header(items_offset, count) == items_offset

StructExpectedMinLen(items_offset, count) == items_offset + count * 3

NoStructCmd ==
    [packet_type |-> 0, device_id |-> 0, data_type |-> 0, raw_value |-> 0,
     scaled_value |-> 0, count |-> 0]

\* a record that is kept only when the value differs from the setpoint
StoreStructCmd_OnChange(st, cmd, o) ==
    IF Differs(cmd.scaled_value, st.target, o.fgt)
        THEN [st EXCEPT !.last = cmd]
        ELSE st

\* last_multi_struct_cmd.packet_type = ...; ... .count = count;
StoreStructCmd(st, cmd, o) == [st EXCEPT !.last = cmd]

ParseMultiStruct(data, hdr, st, o) ==
    LET type_offset == IF hdr THEN 3 ELSE 1
        count_offset == type_offset + 1
        items_offset == type_offset + 2
        dt == Byte(data, type_offset, o)
        count == Byte(data, count_offset, o)
        scale == ScaleOf(dt)
        st1 == [st EXCEPT !.dst = ScaleTypeOf(dt)]
        rd1 == DumpReads(data) \cup {type_offset, count_offset}
        i == StructScan(data, items_offset, count, 0, o)
        item_offset == StructItemOffset(items_offset, i)
        raw == ToInt16(Byte(data, item_offset + 1, o),
                       Byte(data, item_offset + 2, o))
        target == int16ToFloat(raw, scale)
        cmd == [packet_type |-> PACKET_TYPE_MULTI_STRUCT,
                device_id |-> MY_DEVICE_ID, data_type |-> dt,
                raw_value |-> raw, scaled_value |-> target, count |-> count]
        st2 == ApplyTarget(StoreStructCmd(st1, cmd, o), target, o)
    IN  IF Len(data) < items_offset
            THEN Result(st, <<>>, DumpReads(data), "struct_short", "none")
        ELSE IF Len(data) < StructExpectedMinLen(items_offset, count)
            THEN Result(st1, <<>>, rd1, "struct_len", "none")
        ELSE IF i < 0
            THEN Result(st1, <<>>, rd1 \cup StructReads(items_offset, count),
                        "struct_miss", "none")
        ELSE Result(st2, <<Ack("MULTI_STRUCT", st2.target, o)>>,
                    rd1 \cup StructReads(items_offset, i + 1), "struct",
                    Arm(st1, target, o))

\* an unknown-type branch that drops the frame without a response
ParseUnknown_Silent(data, st, o) ==
    Result(st, <<>>, DumpReads(data), "unknown", "none")

ParseUnknown(data, st, o) ==
    Result(st, <<ErrorAck>>, DumpReads(data), "unknown", "none")

\* if (data.length() < 3) return;
MinFrameLength == 3

\* the whole of parseDirectCommandData
Parse(data, st, o) ==
    LET hdr == HasFrameHeader(data, o)
        packet_type == PacketType(data, hdr, o)
    IN  IF Len(data) < MinFrameLength
            THEN Result(st, <<>>, DumpReads(data), "too_short", "none")
        ELSE IF packet_type = PACKET_TYPE_SINGLE
            THEN ParseSingle(data, hdr, st, o)
        ELSE IF packet_type = PACKET_TYPE_MULTI
            THEN ParseMulti(data, hdr, st, o)
        ELSE IF packet_type = PACKET_TYPE_MULTI_STRUCT
            THEN ParseMultiStruct(data, hdr, st, o)
        ELSE ParseUnknown(data, st, o)

\* a response path that notifies whether or not a peer is connected
Transmitted_Always(a, connected) == a

\* sendBLEResponse: notify only while a peer is connected (pTxCharacteristic
\* is set by initBLEServer, which has run)
Transmitted(a, connected) == IF connected THEN a ELSE <<>>

----------------------------------------------------------------------------
(* getSerialMotorTarget: the control tick's consumption of the setpoint *)

\* out_deg * GEAR_RATIO * (PI / 180.0f), in units of (pi/180)/UNIT rad
\* a conversion that leaves out the gear ratio
RadUnits_NoGear(out_deg) == out_deg

RadUnits(out_deg) == out_deg * GEAR_RATIO

\* fabs(motor_rad - last_target) > 0.0001f
RadDiffers(motor_rad, last) == Abs(motor_rad - last) > EPS_RAD

----------------------------------------------------------------------------
(* The frames offered to the decoder *)

FrameHeader == <<FRAME_HEAD_0, FRAME_HEAD_1>>

\* a 16-bit word on the wire, high byte first
Word(w) == <<w \div 256, w % 256>>

DataTypes == {DATA_TYPE_ANGLE, DATA_TYPE_VELOCITY, DATA_TYPE_CURRENT}

\* the raw 16-bit values carried: 100 at even positions; at odd positions
\* 0xFFFF (-1) for angle, 100 for velocity, 101 for current
RawOf(dt, i) ==
    IF i % 2 = 0 THEN 100
    ELSE IF dt = DATA_TYPE_ANGLE THEN 65535
    ELSE IF dt = DATA_TYPE_VELOCITY THEN 100
    ELSE 101

OtherId == MY_DEVICE_ID + 1

Ids == {MY_DEVICE_ID, OtherId}

\* n consecutive words RawOf(dt, k), RawOf(dt, k + 1), ..., as bytes
Words(dt, n, k) ==
    [j \in 1..(2 * n) |->
        LET w == RawOf(dt, ((j - 1) \div 2) + k)
        IN  IF j % 2 = 1 THEN w \div 256 ELSE w % 256]

Zeros(n) == [j \in 1..n |-> 0]

FramedSingle(dt, id, raw) ==
    FrameHeader \o <<PACKET_TYPE_SINGLE, dt, id>> \o Word(raw)

\* the six-byte form: type byte, two header bytes, value, trailing byte
UnframedSingle(b1, b2, raw) ==
    <<PACKET_TYPE_SINGLE, b1, b2>> \o Word(raw) \o <<0>>

FramedSlice(dt, start_id, count, k) ==
    FrameHeader \o <<PACKET_TYPE_MULTI, dt, start_id, count>>
        \o Words(dt, count, k)

UnframedSlice(dt, start_id, count, k) ==
    <<PACKET_TYPE_MULTI, dt, start_id, count>> \o Words(dt, count, k)

FramedLegacy(dt, k) ==
    FrameHeader \o <<PACKET_TYPE_MULTI, dt>> \o Words(dt, LEGACY_MOTORS, k)

Entry(id, raw) == <<id>> \o Word(raw)

EntryChoices(dt) == {Entry(id, RawOf(dt, i)) : id \in Ids, i \in 0..1}

RECURSIVE EntryLists(_, _)
EntryLists(dt, n) ==
    IF n = 0 THEN {<<>>}
    ELSE {e \o l : e \in EntryChoices(dt), l \in EntryLists(dt, n - 1)}

StructFrame(hdr, dt, count, body) ==
    (IF hdr THEN FrameHeader ELSE <<>>)
        \o <<PACKET_TYPE_MULTI_STRUCT, dt, count>> \o body

SingleFrames ==
    {FramedSingle(dt, id, RawOf(DATA_TYPE_ANGLE, i)) :
        dt \in DataTypes, id \in Ids, i \in 0..1}
    \cup {UnframedSingle(MY_DEVICE_ID, dt, RawOf(DATA_TYPE_ANGLE, i)) :
            dt \in DataTypes, i \in 0..1}
    \cup {UnframedSingle(b[1], b[2], 100) :
            b \in {<<OtherId, 0>>, <<0, MY_DEVICE_ID>>, <<1, MY_DEVICE_ID>>}}

SliceFrames ==
    {FramedSlice(dt, s, c, k) :
        dt \in DataTypes, s \in {0, MY_DEVICE_ID - 1, MY_DEVICE_ID, OtherId},
        c \in 1..MaxSlice, k \in 0..1}
    \cup {UnframedSlice(dt, MY_DEVICE_ID, 1, 0) : dt \in DataTypes}

\* slices whose last id reaches or passes 255
LongSliceFrames ==
    {FramedSlice(DATA_TYPE_ANGLE, p[1], p[2], 0) :
        p \in {<<MY_DEVICE_ID, 250>>, <<MY_DEVICE_ID, 251>>, <<4, 253>>,
               <<1, 255>>}}

LegacyFrames == {FramedLegacy(dt, k) : dt \in DataTypes, k \in 0..1}

\* the ten packed values behind the type and data-type bytes, no marker
UnframedLegacy(dt, k) ==
    <<PACKET_TYPE_MULTI, dt>> \o Words(dt, LEGACY_MOTORS, k)

UnframedLegacyFrames == {UnframedLegacy(DATA_TYPE_VELOCITY, k) : k \in 0..1}

\* a framed 24-byte frame of ten values whose first value reads as start id 1
\* and count 9
AmbiguousLegacy(dt) ==
    FrameHeader \o <<PACKET_TYPE_MULTI, dt>> \o Word(256 + LEGACY_MOTORS - 1)
        \o Words(dt, LEGACY_MOTORS - 1, 1)

AmbiguousFrames == {AmbiguousLegacy(DATA_TYPE_ANGLE)}

StructFrames ==
    UNION {{StructFrame(TRUE, DATA_TYPE_CURRENT, n, body) :
                body \in EntryLists(DATA_TYPE_CURRENT, n)}
           : n \in 0..MaxEntries}
    \cup UNION {{StructFrame(p[1], p[2], 1, body) : body \in EntryLists(p[2], 1)}
                : p \in BOOLEAN \X {DATA_TYPE_ANGLE, DATA_TYPE_VELOCITY}}
    \* the count byte declares one entry more than the frame carries
    \cup UNION {{StructFrame(p[1], DATA_TYPE_CURRENT, p[2] + 1, body) :
                    body \in EntryLists(DATA_TYPE_CURRENT, p[2])}
                : p \in BOOLEAN \X (0..1)}

UnknownFrames ==
    {<<4, 0, 0>>, <<0, MY_DEVICE_ID, 0, 100>>,
     FrameHeader \o <<9>>, FrameHeader \o <<9, 0, MY_DEVICE_ID, 0, 100>>,
     FrameHeader \o <<FRAME_HEAD_0, 0, MY_DEVICE_ID, 0, 100>>}

ShortFrames ==
    {<<>>, <<PACKET_TYPE_SINGLE>>, <<FRAME_HEAD_0>>, FrameHeader,
     <<PACKET_TYPE_SINGLE, MY_DEVICE_ID>>, <<PACKET_TYPE_MULTI_STRUCT, 0>>,
     FrameHeader \o <<PACKET_TYPE_MULTI>>,
     FrameHeader \o <<PACKET_TYPE_MULTI, DATA_TYPE_VELOCITY, MY_DEVICE_ID>>,
     FrameHeader \o <<PACKET_TYPE_MULTI_STRUCT, DATA_TYPE_VELOCITY>>,
     FrameHeader \o <<PACKET_TYPE_SINGLE, DATA_TYPE_ANGLE, MY_DEVICE_ID>>}

\* well-formed frames that are also offered cut short and padded
BaseFrames ==
    {FramedSingle(DATA_TYPE_VELOCITY, MY_DEVICE_ID, 100),
     UnframedSingle(MY_DEVICE_ID, DATA_TYPE_VELOCITY, 100),
     FramedSlice(DATA_TYPE_VELOCITY, MY_DEVICE_ID, 1, 0),
     FramedLegacy(DATA_TYPE_CURRENT, 0),
     StructFrame(TRUE, DATA_TYPE_VELOCITY, 1, Entry(MY_DEVICE_ID, 100)),
     StructFrame(FALSE, DATA_TYPE_CURRENT, 1, Entry(MY_DEVICE_ID, 100))}

CutFrames == {SubSeq(f, 1, Len(f) - n) : f \in BaseFrames, n \in 1..MaxCut}

PaddedFrames == {f \o Zeros(n) : f \in BaseFrames, n \in 1..MaxPad}

Frames ==
    SingleFrames \cup SliceFrames \cup LongSliceFrames \cup LegacyFrames
    \cup UnframedLegacyFrames \cup StructFrames \cup UnknownFrames \cup ShortFrames \cup CutFrames
    \cup PaddedFrames \cup AmbiguousFrames

\* the frames offered next to the control tick
TickFrames ==
    {FramedSingle(DATA_TYPE_ANGLE, id, RawOf(DATA_TYPE_ANGLE, i)) :
        id \in Ids, i \in 0..1}
    \cup {FramedSlice(dt, s, 1, 0) :
            dt \in DataTypes, s \in {MY_DEVICE_ID, OtherId}}
    \cup {FramedLegacy(DATA_TYPE_CURRENT, k) : k \in 0..1}
    \cup {StructFrame(TRUE, DATA_TYPE_CURRENT, 1, Entry(id, 101)) : id \in Ids}
    \cup {<<4, 0, 0>>, FrameHeader, FrameHeader \o <<PACKET_TYPE_MULTI>>}

\* the float32 outcomes
Oracles == [fgt : BOOLEAN, up : BOOLEAN]

----------------------------------------------------------------------------
(* State machine.  A decode call is observed in two steps: the call itself *)
(* (op = "parse", with the record of what it did) and its return           *)
(* (op = "idle", the record dropped).  Handlers start only from "idle":    *)
(* the firmware runs one handler to completion before the next.            *)
(*                                                                         *)
(* Spec is the link side: every frame of Frames, connect and disconnect.   *)
(* SpecTick adds the control tick's consumption step and offers the        *)
(* frames of TickFrames.  The tick changes nothing the decoder reads       *)
(* except new_command, which the decoder also clears by itself, so both    *)
(* specifications reach the same decoder-visible states.                   *)

DecoderState ==
    [target |-> ble_motor_target, new_command |-> new_command,
     dst |-> data_scale_type, last |-> last_multi_struct_cmd]

\* no setTorque call has been made yet
NoTorqueCall == [Uq |-> 0, angle_el |-> 0, supply |-> 0, made |-> FALSE]

\* no setPwm call has been made yet
NoPwm == [Uq |-> 0, U |-> <<0, 0, 0>>, writes |-> <<>>]

\* setMotorVelocityWithAngle has not been called yet
NoIqRef == [out |-> 0, passed |-> 0, made |-> FALSE]

\* CS_M0 before its constructor has run: static storage, all zero
NoSenseCall ==
    [op |-> "unbuilt", reads |-> <<0, 0, 0>>, sum |-> <<0, 0, 0>>,
     v |-> <<0, 0, 0>>, prev |-> <<0, 0, 0>>]

\* no value has been handed to floatToInt16
NoCodec == [stage |-> "none", value |-> 0, scale |-> 1, raw |-> 0, back |-> 0]

NoRecord ==
    /\ rx' = <<>>
    /\ pre' = [target |-> 0, new_command |-> FALSE, dst |-> 0,
               last |-> NoStructCmd]
    /\ acks' = <<>>
    /\ sent' = <<>>
    /\ reads' = {}
    /\ path' = "none"
    /\ branch' = "none"

InitProgram ==
    /\ ble_motor_target = 0
    /\ new_command = FALSE
    /\ data_scale_type = 0
    /\ last_multi_struct_cmd = NoStructCmd
    /\ deviceConnected = FALSE
    /\ motor_target = 0
    /\ last_target = 0
    /\ op = "idle"
    /\ rx = <<>>
    /\ pre = [target |-> 0, new_command |-> FALSE, dst |-> 0,
              last |-> NoStructCmd]
    /\ acks = <<>>
    /\ sent = <<>>
    /\ reads = {}
    /\ path = "none"
    /\ branch = "none"
    /\ now = 0
    /\ lastHeartbeat = 0
    /\ oldDeviceConnected = FALSE
    /\ heartbeat = <<>>
    /\ beats = 0
    /\ since = -1
    /\ ticks = 0
    /\ serial_in = <<>>
    /\ received_chars = <<>>
    /\ consumed = <<>>
    /\ mechanical_angle = 0
    /\ zero_electric_angle = 0
    /\ PP = 1
    /\ DIR = 1
    /\ voltage_power_supply = 0
    /\ Ualpha = 0
    /\ Ubeta = 0
    /\ Ua = 0
    /\ Ub = 0
    /\ Uc = 0
    /\ dc = <<0, 0, 0>>
    /\ ledc = <<0, 0, 0>>
    /\ angle_el = 0
    /\ torque_call = NoTorqueCall
    /\ calibrations = 0
    /\ pwm = NoPwm
    /\ iq_ref = NoIqRef
    /\ cal_pc = "idle"
    /\ steps = <<>>
    /\ pins = <<0, 0, 0>>
    /\ offsets = <<0, 0, 0>>
    /\ currents = <<0, 0, 0>>
    /\ cs_call = NoSenseCall
    /\ dec_pc = "idle"
    /\ tick_pc = "idle"
    /\ dec_target = 0
    /\ tick_deg = 0

Init == InitProgram /\ codec = NoCodec

parseDirectCommandData(data, r) ==
    /\ op = "idle"
    /\ ble_motor_target' = r.target
    /\ new_command' = r.new_command
    /\ data_scale_type' = r.dst
    /\ last_multi_struct_cmd' = r.last
    /\ op' = "parse"
    /\ rx' = data
    /\ pre' = DecoderState
    /\ acks' = r.acks
    /\ sent' = Transmitted(r.acks, deviceConnected)
    /\ reads' = r.reads
    /\ path' = r.path
    /\ branch' = r.branch
    /\ UNCHANGED <<deviceConnected, motor_target, last_target>>
    /\ UNCHANGED <<loopVars, serialVars, focVars, codecVars, ctlVars, senseVars, raceVars>>

\* a frame arrives; the call ends in the outcome under either float32 result
Receive == \E data \in Frames, o \in Oracles :
              parseDirectCommandData(data, Parse(data, DecoderState, o))

ReceiveTick == \E data \in TickFrames, o \in Oracles :
                  parseDirectCommandData(data, Parse(data, DecoderState, o))

Return ==
    /\ op = "parse"
    /\ op' = "idle"
    /\ NoRecord
    /\ UNCHANGED <<ble_motor_target, new_command, data_scale_type,
                   last_multi_struct_cmd, deviceConnected, motor_target,
                   last_target>>
    /\ UNCHANGED <<loopVars, serialVars, focVars, codecVars, ctlVars, senseVars, raceVars>>

getSerialMotorTarget ==
    LET motor_rad == RadUnits(ble_motor_target)
    IN  /\ op = "idle"
        /\ IF new_command
              THEN /\ new_command' = FALSE
                   /\ IF RadDiffers(motor_rad, last_target)
                         THEN /\ last_target' = motor_rad
                              /\ motor_target' = motor_rad
                         ELSE UNCHANGED <<last_target, motor_target>>
              ELSE UNCHANGED <<new_command, last_target, motor_target>>
        /\ UNCHANGED <<ble_motor_target, data_scale_type, last_multi_struct_cmd,
                       deviceConnected, op, rx, pre, acks, sent, reads, path,
                       branch>>
        /\ UNCHANGED <<loopVars, serialVars, focVars, codecVars, ctlVars, senseVars, raceVars>>

onConnect ==
    /\ op = "idle"
    /\ deviceConnected' = TRUE
    /\ UNCHANGED <<ble_motor_target, new_command, data_scale_type,
                   last_multi_struct_cmd, motor_target, last_target, op, rx,
                   pre, acks, sent, reads, path, branch>>
    /\ UNCHANGED <<loopVars, serialVars, focVars, codecVars, ctlVars, senseVars, raceVars>>

onDisconnect ==
    /\ op = "idle"
    /\ deviceConnected' = FALSE
    /\ UNCHANGED <<ble_motor_target, new_command, data_scale_type,
                   last_multi_struct_cmd, motor_target, last_target, op, rx,
                   pre, acks, sent, reads, path, branch>>
    /\ UNCHANGED <<loopVars, serialVars, focVars, codecVars, ctlVars, senseVars, raceVars>>

----------------------------------------------------------------------------
(* BLE_Server_Loop and the clock *)

\* unsigned long subtraction a - b
ULongDiff(a, b) == (a - b) % MILLIS_MOD

\* a test that also fires at exactly the period
HeartbeatDue_AtPeriod(t, last) == ULongDiff(t, last) >= HEARTBEAT_PERIOD

\* millis() - lastHeartbeat > 5000
HeartbeatDue(t, last) == ULongDiff(t, last) > HEARTBEAT_PERIOD

HeartbeatMsg == [id |-> MY_DEVICE_ID, kind |-> "HEARTBEAT"]

\* the elapsed time is followed up to this value only
SinceCap == 2 * HEARTBEAT_PERIOD

Elapse(e, d) ==
    IF e < 0 THEN e ELSE IF e + d > SinceCap THEN SinceCap ELSE e + d

\* the time that passes between two steps: one count, the heartbeat period,
\* and a long pause that takes millis() to its wrap-around
Gaps == {1, HEARTBEAT_PERIOD, MILLIS_MOD - HEARTBEAT_PERIOD}

Advance(d) ==
    /\ op = "idle"
    /\ ticks < MaxTicks
    /\ ticks' = ticks + 1
    /\ now' = (now + d) % MILLIS_MOD
    /\ since' = Elapse(since, d)
    /\ UNCHANGED <<ble_motor_target, new_command, data_scale_type,
                   last_multi_struct_cmd, deviceConnected, motor_target,
                   last_target, op, rx, pre, acks, sent, reads, path, branch,
                   lastHeartbeat, oldDeviceConnected, heartbeat, beats>>
    /\ UNCHANGED <<serialVars, focVars, codecVars, ctlVars, senseVars, raceVars>>

Pass == \E d \in Gaps : Advance(d)

\* one call of BLE_Server_Loop (pTxCharacteristic is set by initBLEServer,
\* which has run)
BLE_Server_Loop ==
    LET restart == ~deviceConnected /\ oldDeviceConnected
        t == IF restart THEN (now + RESTART_DELAY) % MILLIS_MOD ELSE now
        e == IF restart THEN Elapse(since, RESTART_DELAY) ELSE since
        beat == deviceConnected /\ HeartbeatDue(t, lastHeartbeat)
    IN  /\ op = "idle"
        /\ restart => ticks < MaxTicks
        /\ ticks' = IF restart THEN ticks + 1 ELSE ticks
        /\ now' = t
        /\ oldDeviceConnected' = deviceConnected
        /\ IF beat
              THEN /\ heartbeat' = <<HeartbeatMsg>>
                   /\ beats' = beats + 1
                   /\ lastHeartbeat' = t
                   /\ since' = 0
              ELSE /\ heartbeat' = <<>>
                   /\ since' = e
                   /\ UNCHANGED <<beats, lastHeartbeat>>
        /\ UNCHANGED <<ble_motor_target, new_command, data_scale_type,
                       last_multi_struct_cmd, deviceConnected, motor_target,
                       last_target, op, rx, pre, acks, sent, reads, path,
                       branch>>
        /\ UNCHANGED <<serialVars, focVars, codecVars, ctlVars, senseVars, raceVars>>

\* the command traffic offered next to the loop
LoopFrames == {FramedSingle(DATA_TYPE_ANGLE, MY_DEVICE_ID, 100), <<4, 0, 0>>}

ReceiveLoop == \E data \in LoopFrames, o \in Oracles :
                  parseDirectCommandData(data, Parse(data, DecoderState, o))

NextLoop ==
    \/ ReceiveLoop
    \/ Return
    \/ onConnect
    \/ onDisconnect
    \/ Pass
    \/ BLE_Server_Loop

SpecLoop == Init /\ [][NextLoop]_vars

----------------------------------------------------------------------------
(* readSerialCommand: the serial text channel.  A character is a string of *)
(* length one; a String is a sequence of characters.                       *)

Digits == {"0", "1", "2", "3", "4", "5", "6", "7", "8", "9"}

DigitValue(c) ==
    CASE c = "0" -> 0 [] c = "1" -> 1 [] c = "2" -> 2 [] c = "3" -> 3
      [] c = "4" -> 4 [] c = "5" -> 5 [] c = "6" -> 6 [] c = "7" -> 7
      [] c = "8" -> 8 [] c = "9" -> 9

\* the decimal digits at the head of str, as a number
RECURSIVE LeadingInt(_, _)
LeadingInt(str, acc) ==
    IF str = <<>> \/ Head(str) \notin Digits THEN acc
    ELSE LeadingInt(Tail(str), acc * 10 + DigitValue(Head(str)))

RECURSIVE SkipDigits(_)
SkipDigits(str) ==
    IF str = <<>> \/ Head(str) \notin Digits THEN str ELSE SkipDigits(Tail(str))

\* the decimal digits at the head of str read as a fraction, in 1/UNIT;
\* place is the weight of the first digit (UNIT / 10), digits below 1/UNIT
\* are beyond the model's resolution
RECURSIVE LeadingFrac(_, _)
LeadingFrac(str, place) ==
    IF str = <<>> \/ Head(str) \notin Digits THEN 0
    ELSE DigitValue(Head(str)) * place + LeadingFrac(Tail(str), place \div 10)

\* String::toDouble (atof): optional sign, digits, optional point and
\* digits; reading stops at the first other character; in 1/UNIT rad
toDouble(str) ==
    LET neg == str # <<>> /\ Head(str) = "-"
        body == IF neg THEN Tail(str) ELSE str
        whole == LeadingInt(body, 0)
        rest == SkipDigits(body)
        frac == IF rest # <<>> /\ Head(rest) = "."
                   THEN LeadingFrac(Tail(rest), UNIT \div 10)
                   ELSE 0
        mag == whole * UNIT + frac
    IN  IF neg THEN 0 - mag ELSE mag

\* a value in 1/UNIT rad as a count of (pi/180)/UNIT rad, the unit of
\* motor_target
FromRad(m) ==
    LET mag == Abs(m)
        u == (mag \div UNIT) * RAD_UNITS + ((mag % UNIT) * RAD_UNITS) \div UNIT
    IN  IF m < 0 THEN 0 - u ELSE u

\* a buffer that keeps the line it has just handled
AfterLine_Keep(buf) == buf

\* received_chars = "" after a complete line
AfterLine(buf) == <<>>

\* command.substring(0, command.indexOf('\n'))
RECURSIVE UpToNewline(_)
UpToNewline(str) ==
    IF str = <<>> \/ Head(str) = "\n" THEN <<>>
    ELSE <<Head(str)>> \o UpToNewline(Tail(str))

\* while (Serial.available()) { ... }: buf is received_chars, mt is
\* motor_target
RECURSIVE ReadLoop(_, _, _)
ReadLoop(input, buf, mt) ==
    IF input = <<>> THEN [buf |-> buf, mt |-> mt]
    ELSE LET inChar == Head(input)
             grown == Append(buf, inChar)
         IN  IF inChar = "\n"
                THEN ReadLoop(Tail(input), AfterLine(grown),
                              FromRad(toDouble(UpToNewline(grown))))
                ELSE ReadLoop(Tail(input), grown, mt)

readSerialCommand ==
    LET r == ReadLoop(serial_in, received_chars, motor_target)
    IN  /\ op = "idle"
        /\ serial_in # <<>>
        /\ serial_in' = <<>>
        /\ consumed' = consumed \o serial_in
        /\ received_chars' = r.buf
        /\ motor_target' = r.mt
        /\ UNCHANGED <<ble_motor_target, new_command, data_scale_type,
                       last_multi_struct_cmd, deviceConnected, last_target, op,
                       rx, pre, acks, sent, reads, path, branch>>
        /\ UNCHANGED <<loopVars, focVars, codecVars, ctlVars, senseVars, raceVars>>

\* the characters that arrive
SerialChars == {"1", ".", "-", "\n"}

\* one character arrives on the serial line
SerialArrive(c) ==
    /\ op = "idle"
    /\ Len(consumed) + Len(serial_in) < MaxSerial
    /\ serial_in' = Append(serial_in, c)
    /\ UNCHANGED <<received_chars, consumed>>
    /\ UNCHANGED <<bleVars, loopVars, focVars, codecVars, ctlVars, senseVars, raceVars>>

SerialInput == \E c \in SerialChars : SerialArrive(c)

NextSerial ==
    \/ SerialInput
    \/ readSerialCommand
    \/ ReceiveLoop
    \/ Return

SpecSerial == Init /\ [][NextSerial]_vars

Next ==
    \/ Receive
    \/ Return
    \/ onConnect
    \/ onDisconnect

Spec == Init /\ [][Next]_vars

NextTick ==
    \/ ReceiveTick
    \/ Return
    \/ getSerialMotorTarget

SpecTick == Init /\ [][NextTick]_vars

\* the wireless commands offered next to the serial channel and the control
\* tick: 10.0 and 0.0 degrees for this device
MixedFrames ==
    {FramedSingle(DATA_TYPE_ANGLE, MY_DEVICE_ID, raw) : raw \in {100, 0}}

ReceiveMixed == \E data \in MixedFrames, o \in Oracles :
                   parseDirectCommandData(data, Parse(data, DecoderState, o))

\* the serial text offered next to the wireless channel
MixedChars == {"1", "\n"}

SerialMixed == \E c \in MixedChars : SerialArrive(c)

\* the three entry points of FOC_Control.cpp and the decoder, called in any
\* order
NextMixed ==
    \/ ReceiveMixed
    \/ Return
    \/ SerialMixed
    \/ readSerialCommand
    \/ getSerialMotorTarget

SpecMixed == Init /\ [][NextMixed]_vars

----------------------------------------------------------------------------
(* Coordinate transform (FOC_Core.cpp).                                     *)
(*                                                                          *)
(* Angles are float32 values counted in units of 2^-25 rad.  Every float32  *)
(* of magnitude 0.25 rad or more is a whole number of units; between 4 and  *)
(* 8 rad the float32 values are the multiples of 16 units.  The double      *)
(* constant 2*PI is TWO_PI units and a fraction of about 0.133 unit, so the *)
(* exact result of fmod, and of a + 2*PI, is a whole number of units less   *)
(* or plus a fraction; RoundInside rounds such a value to float32.  The     *)
(* rounding decisions are exact for angles of fewer than four turns.  A     *)
(* float32 below 0.25 rad that is not a whole number of units is reported   *)
(* to the unit.  Voltages are counted in 1/UNIT volt, sin and cos in        *)
(* 1/UNIT.                                                                  *)

\* float32 keeps 24 significant bits
FLOAT_MANT == 16777216

\* one radian, in units of 2^-25 rad
RAD == 2 * FLOAT_MANT

\* the double 2*PI lies strictly between TWO_PI and TWO_PI + 1 units
TWO_PI == 210828714

\* #define _3PI_2 4.71238898038f
_3PI_2 == 158121536

\* sqrt(3), in 1/UNIT
SQRT3 == 1732

\* #define _constrain(amt,low,high)
Constrain(amt, low, high) ==
    IF amt < low THEN low ELSE IF amt > high THEN high ELSE amt

\* division of the magnitudes, as float arithmetic is symmetric in the sign
Quot(a, b) == IF a < 0 THEN 0 - ((0 - a) \div b) ELSE a \div b

\* spacing of the float32 values around a magnitude v
RECURSIVE Grid(_)
Grid(v) == IF v < FLOAT_MANT THEN 1 ELSE 2 * Grid(v \div 2)

\* float32 nearest to the whole number v >= 0, ties to even
RoundEven(v) ==
    LET g == Grid(v)
        rem == v % g
        lo == v - rem
    IN  IF 2 * rem < g THEN lo
        ELSE IF 2 * rem > g THEN lo + g
        ELSE IF (lo \div g) % 2 = 0 THEN lo ELSE lo + g

\* result of a float32 operation whose exact value is x
RoundF(x) == IF x < 0 THEN 0 - RoundEven(0 - x) ELSE RoundEven(x)

\* float32 nearest to a value strictly between v and v + 1; where the
\* float32 spacing is one unit, up tells on which side of v + 1/2 it lies
RoundInside(v, up) ==
    LET g == Grid(v)
        rem == v % g
        lo == v - rem
    IN  IF g = 1 THEN (IF up THEN v + 1 ELSE v)
        ELSE IF 2 * rem >= g THEN lo + g ELSE lo

\* whole turns in fmod(angle, 2*PI), for the magnitude m of the angle
Turns(m) ==
    LET k == m \div TWO_PI
    IN  IF k > 0 /\ m % TWO_PI = 0 THEN k - 1 ELSE k

\* a + 2*PI for a = -mag, evaluated in double and returned as float
AddTurn(a) == RoundInside(TWO_PI - a, FALSE)

\* float normalizeAngle(float angle)
normalizeAngle(angle) ==
    LET m == Abs(angle)
        k == Turns(m)
        a == IF k = 0 THEN m ELSE RoundInside(m - k * TWO_PI - 1, TRUE)
    IN  IF angle >= 0 THEN a ELSE AddTurn(a)

\* normalizeAngle((float)(DIR * PP) * S0.getMechanicalAngle()
\*                - zero_electric_angle)
electricalAngle(mech, pp, dir, zero) ==
    normalizeAngle(RoundF(RoundF(dir * pp * mech) - zero))

\* sin of an angle given in whole degrees, in 1/UNIT (to about 0.002)
SinDeg(d) ==
    LET h == d % 180
        p == h * (180 - h)
        v == (4 * UNIT * p) \div (40500 - p)
    IN  IF (d \div 180) % 2 = 0 THEN v ELSE 0 - v

\* sin(angle_el) and cos(angle_el) of a normalised angle
sin(angle) == SinDeg(angle \div (TWO_PI \div 360))

cos(angle) == SinDeg(angle \div (TWO_PI \div 360) + 90)

\* a q-axis clamp at the whole supply voltage
ClampUq_Full(Uq, supply) == Constrain(Uq, 0 - supply, supply)

\* Uq = _constrain(Uq, -(voltage_power_supply)/2, (voltage_power_supply)/2)
ClampUq(Uq, supply) == Constrain(Uq, 0 - (supply \div 2), supply \div 2)

\* the centre added to each phase, taken as the whole supply
Centre_Full(supply) == supply

\* voltage_power_supply/2
Centre(supply) == supply \div 2

\* one phase of setPwm: clamp, divide by the supply, clamp, scale to 8 bit
DutyOf(U, supply) ==
    Constrain(Quot(Constrain(U, 0, supply) * UNIT, supply), 0, UNIT)

\* ledcWrite(channel, dc * 255)
LedcOf(duty) == (duty * 255) \div UNIT

\* Ua = _constrain(Ua, 0.0f, voltage_power_supply)
PhaseOf(U, supply) == Constrain(U, 0, supply)

\* the three ledcWrite calls of setPwm, as <<channel, value>>
Writes(duty) ==
    <<<<0, LedcOf(duty[1])>>, <<1, LedcOf(duty[2])>>, <<2, LedcOf(duty[3])>>>>

\* setTorque(Uq, angle_el) followed by setPwm(Ua, Ub, Uc)
Torque(Uq_in, angle, supply) ==
    LET Uq == ClampUq(Uq_in, supply)
        th == normalizeAngle(angle)
        al == Quot((0 - Uq) * sin(th), UNIT)
        be == Quot(Uq * cos(th), UNIT)
        a == al + Centre(supply)
        b == Quot(Quot(SQRT3 * be, UNIT) - al, 2) + Centre(supply)
        c == Quot((0 - al) - Quot(SQRT3 * be, UNIT), 2) + Centre(supply)
    IN  [Ualpha |-> al, Ubeta |-> be, Ua |-> a, Ub |-> b, Uc |-> c,
         dc |-> <<DutyOf(a, supply), DutyOf(b, supply), DutyOf(c, supply)>>]

\* the writes of one setTorque call
Drive(Uq_in, angle) ==
    LET t == Torque(Uq_in, angle, voltage_power_supply)
    IN  /\ Ualpha' = t.Ualpha
        /\ Ubeta' = t.Ubeta
        /\ Ua' = t.Ua
        /\ Ub' = t.Ub
        /\ Uc' = t.Uc
        /\ dc' = t.dc
        /\ ledc' = <<LedcOf(t.dc[1]), LedcOf(t.dc[2]), LedcOf(t.dc[3])>>
        /\ torque_call' = [Uq |-> Uq_in, angle_el |-> angle,
                           supply |-> voltage_power_supply, made |-> TRUE]
        /\ pwm' = [Uq |-> ClampUq(Uq_in, voltage_power_supply),
                   U |-> <<PhaseOf(t.Ua, voltage_power_supply),
                           PhaseOf(t.Ub, voltage_power_supply),
                           PhaseOf(t.Uc, voltage_power_supply)>>,
                   writes |-> Writes(t.dc)]

\* largest pole pair count handed to calibrateSensor
MaxPolePairs == 2

\* number of calibrateSensor calls explored
MaxCalibrations == 1

\* number of calibrateSensor calls followed statement by statement: a first
\* calibration and a re-calibration
MaxCalRuns == 2

\* readings of the angle sensor: 0.25 rad and the next float32, 1 rad,
\* 5 rad, and -1 rad
MechAngles == {RAD \div 4, RAD \div 4 + 1, RAD, 5 * RAD, 0 - RAD}

\* supply voltages handed to setPowerSupplyVoltage
Supplies == {8 * UNIT, 12 * UNIT}

\* q-axis voltages: zero, 3 V either way, and beyond half the supply
Voltages == {0, 3 * UNIT, 0 - 3 * UNIT, 20 * UNIT}

\* electrical angles handed to setTorque directly
Thetas == {0, RAD, _3PI_2, 0 - RAD, 2 * _3PI_2, 0 - 1}

\* setPowerSupplyVoltage: the supply voltage is stored (the peripherals it
\* configures hold no state of the transform)
setPowerSupplyVoltage(power_supply) ==
    /\ voltage_power_supply' = power_supply
    /\ UNCHANGED <<mechanical_angle, zero_electric_angle, PP, DIR, Ualpha,
                   Ubeta, Ua, Ub, Uc, dc, ledc, angle_el, torque_call,
                   calibrations, pwm>>
    /\ UNCHANGED <<bleVars, loopVars, serialVars, codecVars, ctlVars, senseVars, raceVars>>

PowerUp == \E v \in Supplies : setPowerSupplyVoltage(v)

\* runFOC: S0.Sensor_update() takes a new reading of the angle sensor
runFOC ==
    /\ \E m \in MechAngles : mechanical_angle' = m
    /\ UNCHANGED <<zero_electric_angle, PP, DIR, voltage_power_supply, Ualpha,
                   Ubeta, Ua, Ub, Uc, dc, ledc, angle_el, torque_call,
                   calibrations, pwm>>
    /\ UNCHANGED <<bleVars, loopVars, serialVars, codecVars, ctlVars, senseVars, raceVars>>

\* setTorque(Uq, angle_el); with no supply voltage stored the duty is 0/0
setTorque(Uq, angle) ==
    /\ voltage_power_supply > 0
    /\ Drive(Uq, angle)
    /\ UNCHANGED <<mechanical_angle, zero_electric_angle, PP, DIR,
                   voltage_power_supply, angle_el, calibrations>>
    /\ UNCHANGED <<bleVars, loopVars, serialVars, codecVars, ctlVars, senseVars, raceVars>>

TorqueCommand == \E Uq \in Voltages, th \in Thetas : setTorque(Uq, th)

\* setMotorTorque: setTorque(pid_output, electricalAngle())
setMotorTorque(pid_output) ==
    /\ voltage_power_supply > 0
    /\ angle_el' = electricalAngle(mechanical_angle, PP, DIR,
                                   zero_electric_angle)
    /\ Drive(pid_output, angle_el')
    /\ UNCHANGED <<mechanical_angle, zero_electric_angle, PP, DIR,
                   voltage_power_supply, calibrations>>
    /\ UNCHANGED <<bleVars, loopVars, serialVars, codecVars, ctlVars, senseVars, raceVars>>

CurrentLoop == \E Uq \in Voltages : setMotorTorque(Uq)

\* static const float I_MAX_CMD = 6.5f, in 1/UNIT ampere
I_MAX_CMD == 6500

\* a current reference that is passed on as the velocity loop returns it
ClampIq_None(iq) == iq

\* iq_ref = _constrain(iq_ref, -I_MAX_CMD, I_MAX_CMD)
ClampIq(iq) == Constrain(iq, 0 - I_MAX_CMD, I_MAX_CMD)

\* results of calculateVelocityPID, in 1/UNIT ampere: zero, 3 A either way,
\* the bound, the next value past it either way, and 100 A either way
PidOutputs ==
    {0, 3 * UNIT, 0 - 3 * UNIT, I_MAX_CMD, 0 - I_MAX_CMD, I_MAX_CMD + 1,
     0 - I_MAX_CMD - 1, 100 * UNIT, 0 - 100 * UNIT}

\* setMotorVelocityWithAngle(Target): the position and velocity loops return
\* out, which is clamped and handed to setMotorTorque; the current loop
\* inside setMotorTorque returns pid_output
setMotorVelocityWithAngle(out, pid_output) ==
    /\ voltage_power_supply > 0
    /\ iq_ref' = [out |-> out, passed |-> ClampIq(out), made |-> TRUE]
    /\ angle_el' = electricalAngle(mechanical_angle, PP, DIR,
                                   zero_electric_angle)
    /\ Drive(pid_output, angle_el')
    /\ UNCHANGED <<mechanical_angle, zero_electric_angle, PP, DIR,
                   voltage_power_supply, calibrations>>
    /\ UNCHANGED <<bleVars, loopVars, serialVars, codecVars, senseVars, raceVars, cal_pc, steps>>

VelocityLoop ==
    \E out \in PidOutputs, Uq \in Voltages : setMotorVelocityWithAngle(out, Uq)

\* calibrateSensor(_PP, _DIR): setTorque(3, _3PI_2), a new sensor reading,
\* zero_electric_angle = electricalAngle(), setTorque(0, _3PI_2)
calibrateSensor(pp, dir) ==
    /\ voltage_power_supply > 0
    /\ calibrations < MaxCalibrations
    /\ calibrations' = calibrations + 1
    /\ PP' = pp
    /\ DIR' = dir
    /\ \E m \in MechAngles :
        /\ mechanical_angle' = m
        /\ angle_el' = electricalAngle(m, pp, dir, zero_electric_angle)
    /\ zero_electric_angle' = angle_el'
    /\ Drive(0, _3PI_2)
    /\ UNCHANGED voltage_power_supply
    /\ UNCHANGED <<bleVars, loopVars, serialVars, codecVars, ctlVars, senseVars, raceVars>>

Calibrate == \E pp \in 1..MaxPolePairs, dir \in {1, -1} : calibrateSensor(pp, dir)

\* calibration and the current loop
NextFOC ==
    \/ PowerUp
    \/ runFOC
    \/ CurrentLoop
    \/ Calibrate

SpecFOC == Init /\ [][NextFOC]_vars

\* torque commands at any electrical angle, before any calibration
NextTorque ==
    \/ PowerUp
    \/ runFOC
    \/ TorqueCommand
    \/ CurrentLoop

SpecTorque == Init /\ [][NextTorque]_vars

\* calibrateSensor, statement by statement.  cal_pc names the statement that
\* runs next ("idle": no call in progress); steps lists the statements the
\* call has executed, with their operands.

\* an order in which the offset is recorded before the sensor is refreshed
CalOrder_ZeroFirst ==
    <<"store", "setTorque3", "delay", "zero", "Sensor_update", "setTorque0">>

\* the statements of calibrateSensor in program order
CalOrder ==
    <<"store", "setTorque3", "delay", "Sensor_update", "zero", "setTorque0">>

\* the statement after stmt, "idle" after the last one
CalAfter(stmt) ==
    LET i == CHOOSE k \in 1..Len(CalOrder) : CalOrder[k] = stmt
    IN  IF i = Len(CalOrder) THEN "idle" ELSE CalOrder[i + 1]

\* setTorque(3, _3PI_2)
CAL_UQ == 3

\* delay(1000)
CAL_SETTLE_MS == 1000

CalStep(stmt, a, b) ==
    /\ cal_pc' = CalAfter(stmt)
    /\ steps' = Append(steps, [stmt |-> stmt, a |-> a, b |-> b])
    /\ UNCHANGED iq_ref
    /\ UNCHANGED <<bleVars, loopVars, serialVars, codecVars, senseVars, raceVars>>

\* PP = _PP; DIR = _DIR;
CalStore(pp, dir) ==
    /\ cal_pc = "idle"
    /\ voltage_power_supply > 0
    /\ calibrations < MaxCalRuns
    /\ calibrations' = calibrations + 1
    /\ PP' = pp
    /\ DIR' = dir
    /\ cal_pc' = CalAfter("store")
    /\ steps' = <<[stmt |-> "store", a |-> pp, b |-> dir]>>
    /\ UNCHANGED iq_ref
    /\ UNCHANGED <<mechanical_angle, zero_electric_angle, voltage_power_supply,
                   Ualpha, Ubeta, Ua, Ub, Uc, dc, ledc, angle_el, torque_call,
                   pwm>>
    /\ UNCHANGED <<bleVars, loopVars, serialVars, codecVars, senseVars, raceVars>>

CalBegin == \E pp \in 1..MaxPolePairs, dir \in {1, -1} : CalStore(pp, dir)

\* setTorque(3, _3PI_2);
CalHold ==
    /\ cal_pc = "setTorque3"
    /\ Drive(CAL_UQ * UNIT, _3PI_2)
    /\ CalStep("setTorque3", CAL_UQ * UNIT, _3PI_2)
    /\ UNCHANGED <<mechanical_angle, zero_electric_angle, PP, DIR,
                   voltage_power_supply, angle_el, calibrations>>

\* delay(1000);
CalSettle ==
    /\ cal_pc = "delay"
    /\ CalStep("delay", CAL_SETTLE_MS, 0)
    /\ UNCHANGED focVars

\* S0.Sensor_update();
CalRefresh ==
    /\ cal_pc = "Sensor_update"
    /\ \E m \in MechAngles :
        /\ mechanical_angle' = m
        /\ CalStep("Sensor_update", m, 0)
    /\ UNCHANGED <<zero_electric_angle, PP, DIR, voltage_power_supply, Ualpha,
                   Ubeta, Ua, Ub, Uc, dc, ledc, angle_el, torque_call,
                   calibrations, pwm>>

\* zero_electric_angle = electricalAngle();
CalZero ==
    /\ cal_pc = "zero"
    /\ angle_el' = electricalAngle(mechanical_angle, PP, DIR,
                                   zero_electric_angle)
    /\ zero_electric_angle' = angle_el'
    /\ CalStep("zero", angle_el', zero_electric_angle)
    /\ UNCHANGED <<mechanical_angle, PP, DIR, voltage_power_supply, Ualpha,
                   Ubeta, Ua, Ub, Uc, dc, ledc, torque_call, calibrations, pwm>>

\* setTorque(0, _3PI_2);
CalRelease ==
    /\ cal_pc = "setTorque0"
    /\ Drive(0, _3PI_2)
    /\ CalStep("setTorque0", 0, _3PI_2)
    /\ UNCHANGED <<mechanical_angle, zero_electric_angle, PP, DIR,
                   voltage_power_supply, angle_el, calibrations>>

\* calibration runs to completion: nothing else runs while a call is in
\* progress
NextCalibrate ==
    \/ cal_pc = "idle" /\ PowerUp
    \/ cal_pc = "idle" /\ runFOC
    \/ CalBegin
    \/ CalHold
    \/ CalSettle
    \/ CalRefresh
    \/ CalZero
    \/ CalRelease

SpecCalibrate == Init /\ [][NextCalibrate]_vars

\* the control tick of runFOC: a sensor reading, then the cascade
NextCascade ==
    \/ PowerUp
    \/ runFOC
    \/ VelocityLoop

SpecCascade == Init /\ [][NextCascade]_vars

----------------------------------------------------------------------------
(* Wire encoding (Ble_Handler.cpp, floatToInt16 and int16ToFloat).          *)
(*                                                                          *)
(* The value handed to floatToInt16 is counted in eighths of the wire unit: *)
(* such values are exact both in float32 and in 1/UNIT, and so is their     *)
(* product with each scale used on the wire as long as it keeps 24          *)
(* significant bits (RoundF rounds it otherwise).                           *)

\* denominator of the values handed to floatToInt16
EIGHTH == 8

\* limits of int32_t and int16_t
INT32_MAX == 2147483647

INT16_MAX == 32767

INT16_MIN == -32768

\* (int32_t)x for a float x outside the range of int32_t is undefined: the
\* results of a saturating conversion, of a conversion that answers
\* INT32_MIN for every unrepresentable operand, and of one that answers 0
CastUndefined(value) ==
    {IF value < 0 THEN 0 - INT32_MAX - 1 ELSE INT32_MAX, 0 - INT32_MAX - 1, 0}

\* half the float32 spacing just below 2^31, and the spacing just above
HALF_STEP_31 == 64

STEP_31 == 256

\* the magnitude whole * scale + part less 2^31, for a magnitude near 2^31
Over31(whole, part, scale) ==
    LET q == INT32_MAX \div scale
    IN  (whole - q) * scale + part - (INT32_MAX - q * scale) - 1

\* the float product of that magnitude rounds to 2^31 or more
AtLeast31(whole, part, scale) ==
    LET q == INT32_MAX \div scale
    IN  \/ whole > q + STEP_31
        \/ whole >= q /\ Over31(whole, part, scale) >= 0 - HALF_STEP_31

\* the float product of that magnitude rounds to more than 2^31
Beyond31(whole, part, scale) ==
    LET q == INT32_MAX \div scale
    IN  \/ whole > q + STEP_31
        \/ whole >= q /\ 2 * Over31(whole, part, scale) > STEP_31

\* int32_t scaled_value = (int32_t)(value * scale): the float product,
\* truncated toward zero; undefined when it does not fit int32_t.  For a
\* product of 2^27 or more the eighths are dropped before the rounding.
ScaledValue(value, scale) ==
    LET whole == Abs(value) \div EIGHTH
        part == ((Abs(value) % EIGHTH) * scale) \div EIGHTH
    IN  IF Abs(value) <= (INT32_MAX \div scale) \div 2
        THEN {Quot(RoundF(value * scale), EIGHTH)}
        ELSE IF value > 0
        THEN IF AtLeast31(whole, part, scale)
             THEN CastUndefined(value)
             ELSE {RoundEven(whole * scale + part)}
        ELSE IF Beyond31(whole, part, scale)
             THEN CastUndefined(value)
             ELSE IF AtLeast31(whole, part, scale)
             THEN {0 - INT32_MAX - 1}
             ELSE {0 - RoundEven(whole * scale + part)}

\* the two overflow guards and the cast to int16_t
Clamp16(scaled_value) ==
    IF scaled_value > INT16_MAX THEN INT16_MAX
    ELSE IF scaled_value < INT16_MIN THEN INT16_MIN
    ELSE scaled_value

\* int16_t floatToInt16(float value, float scale): the values it can return
floatToInt16(value, scale) ==
    {Clamp16(scaled_value) : scaled_value \in ScaledValue(value, scale)}

\* largest whole part among the small values
MaxWhole == 1

\* whole parts: small ones, those next to 32767 / scale for each scale, and
\* one whose product with CURRENT_SCALE does not fit int32_t
CodecWholes == (0..MaxWhole) \cup {32, 3276, 6553, 3000000}

\* values handed to floatToInt16, in eighths, of either sign
CodecValues ==
    {sign * (EIGHTH * w + f) :
        sign \in {1, -1}, w \in CodecWholes, f \in {0, 1, 6, 7}}

\* the scales used on the wire
Scales == {ANGLE_SCALE, VELOCITY_SCALE, CURRENT_SCALE}

\* a value and a scale are chosen
InitCodec ==
    /\ InitProgram
    /\ \E value \in CodecValues, scale \in Scales :
        codec = [stage |-> "value", value |-> value, scale |-> scale,
                 raw |-> 0, back |-> 0]

\* the sender encodes the value
Encode ==
    /\ codec.stage = "value"
    /\ \E raw \in floatToInt16(codec.value, codec.scale) :
        codec' = [codec EXCEPT !.stage = "raw", !.raw = raw]
    /\ UNCHANGED <<bleVars, loopVars, serialVars, focVars, ctlVars, senseVars, raceVars>>

\* the receiver decodes it with the same scale
Decode ==
    /\ codec.stage = "raw"
    /\ codec' = [codec EXCEPT !.stage = "back",
                              !.back = int16ToFloat(codec.raw, codec.scale)]
    /\ UNCHANGED <<bleVars, loopVars, serialVars, focVars, ctlVars, senseVars, raceVars>>

NextCodec ==
    \/ Encode
    \/ Decode

SpecCodec == InitCodec /\ [][NextCodec]_vars

-----------------------------------------------------------------------------
(* The setpoint hand-over, statement by statement.  onWrite runs            *)
(* parseDirectCommandData in the task of the wireless stack while the main  *)
(* loop runs getSerialMotorTarget; each side executes its statements in     *)
(* program order and a step of either side may follow any step of the      *)
(* other.                                                                   *)

\* a tick that reads the setpoint before it lowers the flag
TickOrder_ReadFirst == <<"test", "read", "clear", "apply">>

\* if (new_command) { new_command = false; out_deg = ble_motor_target;
\* motor_rad = ...; if (fabs(motor_rad - last_target) > 0.0001f) { ... } }
TickOrder == <<"test", "clear", "read", "apply">>

\* ble_motor_target = new_target; new_command = true;
DecodeOrder == <<"write", "flag">>

\* the statement after stmt in order, "idle" after the last one
After(order, stmt) ==
    LET i == CHOOSE k \in 1..Len(order) : order[k] = stmt
    IN  IF i = Len(order) THEN "idle" ELSE order[i + 1]

\* the setpoints carried by the frames of the hand-over: 0, 10.0 and 20.0
RaceTargets == {0, 10 * UNIT, 20 * UNIT}

DecodeStep ==
    /\ UNCHANGED <<data_scale_type, last_multi_struct_cmd, deviceConnected,
                   motor_target, last_target, op, rx, pre, acks, sent, reads,
                   path, branch>>
    /\ UNCHANGED <<tick_pc, tick_deg>>
    /\ UNCHANGED <<loopVars, serialVars, focVars, codecVars, ctlVars, senseVars>>

\* a frame for this device arrives: new_target is decoded and
\* fabs(new_target - ble_motor_target) > 0.001f holds
DecTest(v) ==
    /\ dec_pc = "idle"
    /\ Differs(v, ble_motor_target, FALSE)
    /\ dec_target' = v
    /\ dec_pc' = DecodeOrder[1]
    /\ UNCHANGED <<ble_motor_target, new_command>>
    /\ DecodeStep

DecAccept == \E v \in RaceTargets : DecTest(v)

\* ble_motor_target = new_target;
DecWrite ==
    /\ dec_pc = "write"
    /\ ble_motor_target' = dec_target
    /\ dec_pc' = After(DecodeOrder, "write")
    /\ UNCHANGED <<new_command, dec_target>>
    /\ DecodeStep

\* new_command = true;
DecFlag ==
    /\ dec_pc = "flag"
    /\ new_command' = TRUE
    /\ dec_pc' = After(DecodeOrder, "flag")
    /\ UNCHANGED <<ble_motor_target, dec_target>>
    /\ DecodeStep

TickStatement ==
    /\ UNCHANGED <<ble_motor_target, data_scale_type, last_multi_struct_cmd,
                   deviceConnected, op, rx, pre, acks, sent, reads, path,
                   branch>>
    /\ UNCHANGED <<dec_pc, dec_target>>
    /\ UNCHANGED <<loopVars, serialVars, focVars, codecVars, ctlVars, senseVars>>

\* getSerialMotorTarget is called
TickCall ==
    /\ tick_pc = "idle"
    /\ tick_pc' = TickOrder[1]
    /\ UNCHANGED <<new_command, motor_target, last_target, tick_deg>>
    /\ TickStatement

\* if (new_command)
TickTest ==
    /\ tick_pc = "test"
    /\ tick_pc' = IF new_command THEN After(TickOrder, "test") ELSE "idle"
    /\ UNCHANGED <<new_command, motor_target, last_target, tick_deg>>
    /\ TickStatement

\* new_command = false;
TickClear ==
    /\ tick_pc = "clear"
    /\ new_command' = FALSE
    /\ tick_pc' = After(TickOrder, "clear")
    /\ UNCHANGED <<motor_target, last_target, tick_deg>>
    /\ TickStatement

\* float out_deg = ble_motor_target;
TickRead ==
    /\ tick_pc = "read"
    /\ tick_deg' = ble_motor_target
    /\ tick_pc' = After(TickOrder, "read")
    /\ UNCHANGED <<new_command, motor_target, last_target>>
    /\ TickStatement

\* motor_rad = out_deg * GEAR_RATIO * (PI / 180.0f); if (fabs(motor_rad -
\* last_target) > 0.0001f) { last_target = motor_rad; motor_target = motor_rad; }
TickApply ==
    /\ tick_pc = "apply"
    /\ IF RadDiffers(RadUnits(tick_deg), last_target)
          THEN /\ last_target' = RadUnits(tick_deg)
               /\ motor_target' = RadUnits(tick_deg)
          ELSE UNCHANGED <<last_target, motor_target>>
    /\ tick_pc' = After(TickOrder, "apply")
    /\ UNCHANGED <<new_command, tick_deg>>
    /\ TickStatement

NextRace ==
    \/ DecAccept
    \/ DecWrite
    \/ DecFlag
    \/ TickCall
    \/ TickTest
    \/ TickClear
    \/ TickRead
    \/ TickApply

SpecRace == Init /\ [][NextRace]_vars

-----------------------------------------------------------------------------
(* Current sensing (CurrSense).  A voltage is counted in ADC counts (one    *)
(* count is _ADC_CONV volt); offsets are counted in 1/OFFSET_UNIT count and *)
(* currents in 1/OFFSET_UNIT count times ampere per volt.                   *)

\* #define NOT_SET -12345.0
NOT_SET == -12345

\* #define _isset(a) ( (a) != (NOT_SET) )
IsSet(a) == a # NOT_SET

\* pinA = 39; pinB = 36;
PIN_A == 39

PIN_B == 36

\* _ADC_RESOLUTION 4095.0f: the largest result of analogRead
ADC_MAX == 4095

\* const int calibration_rounds = 1000;
calibration_rounds == 1000

\* offsets are counted in hundredths of an ADC count
OFFSET_UNIT == 100

\* _shunt_resistor = 0.01 (in milliohm); amp_gain = 50
SHUNT_MILLIOHM == 10

AMP_GAIN == 50

\* volts_to_amps_ratio = 1.0f / _shunt_resistor / amp_gain
volts_to_amps_ratio == (1000 \div SHUNT_MILLIOHM) \div AMP_GAIN

\* the constructor assigns pinA and pinB, and no statement assigns pinC
Assigned == <<TRUE, TRUE, FALSE>>

\* what pinC holds after CurrSense(0): the zero of the static storage when
\* CS_M0 is constructed in place, the content of a temporary otherwise
\* (indeterminate; a pin number and NOT_SET stand for it)
Unassigned(storage) == {storage, 5, NOT_SET}

\* the readings of one channel during a calibration: pat[3] readings of
\* pat[1], then readings of pat[2]
Patterns ==
    {<<ADC_MAX \div 2, (ADC_MAX \div 2) + 2, 500>>, <<0, ADC_MAX, 250>>}

\* readings of one channel in getPhaseCurrents
Readings == {(ADC_MAX \div 2) + 1, 0}

\* analogRead in round i of the calibration loop
ReadAt(pat, i) == IF i < pat[3] THEN pat[1] ELSE pat[2]

\* the readings of rounds from..(to - 1), added up
RECURSIVE SumRounds(_, _, _)
SumRounds(pat, from, to) ==
    IF to - from = 1 THEN ReadAt(pat, from)
    ELSE LET mid == (from + to) \div 2
         IN  SumRounds(pat, from, mid) + SumRounds(pat, mid, to)

PatternSums == [pat \in Patterns |-> SumRounds(pat, 0, calibration_rounds)]

\* for (i = 0; i < calibration_rounds; i++) offset += readADCVoltageInline(pin)
Accumulate(pat, acc) == acc + PatternSums[pat]

\* offset_ia = 0; offset_ib = 0; offset_ic = 0;
Accumulator(prev) == 0

\* offset_ia = offset_ia / calibration_rounds
MeanOf(acc) == (acc * OFFSET_UNIT) \div calibration_rounds

\* (readADCVoltageInline(pin) - offset) * gain
CurrentOf(v, offset) == (v * OFFSET_UNIT - offset) * volts_to_amps_ratio

\* CurrSense::CurrSense(0)
CurrSense ==
    /\ cs_call.op = "unbuilt"
    /\ \E c \in Unassigned(pins[3]) : pins' = <<PIN_A, PIN_B, c>>
    /\ cs_call' = [cs_call EXCEPT !.op = "built"]
    /\ UNCHANGED <<offsets, currents>>
    /\ UNCHANGED <<bleVars, loopVars, serialVars, focVars, codecVars, ctlVars, raceVars>>

\* CurrSense::calibrateOffsets
calibrateOffsets(pa, pb, pc) ==
    LET wired == IsSet(pins[3])
        acc == <<Accumulate(pa, Accumulator(offsets[1])),
                 Accumulate(pb, Accumulator(offsets[2])),
                 IF wired THEN Accumulate(pc, Accumulator(offsets[3]))
                          ELSE Accumulator(offsets[3])>>
    IN  /\ cs_call.op # "unbuilt"
        /\ offsets' = <<MeanOf(acc[1]), MeanOf(acc[2]),
                        IF wired THEN MeanOf(acc[3]) ELSE acc[3]>>
        /\ cs_call' = [op |-> "calibrate",
                       reads |-> <<calibration_rounds, calibration_rounds,
                                   IF wired THEN calibration_rounds ELSE 0>>,
                       sum |-> <<Accumulate(pa, 0), Accumulate(pb, 0),
                                 IF wired THEN Accumulate(pc, 0) ELSE 0>>,
                       v |-> <<0, 0, 0>>,
                       prev |-> offsets]
        /\ UNCHANGED <<pins, currents>>
        /\ UNCHANGED <<bleVars, loopVars, serialVars, focVars, codecVars,
                       ctlVars, raceVars>>

CalibrateOffsets ==
    \E pa \in Patterns, pb \in Patterns, pc \in Patterns :
        calibrateOffsets(pa, pb, pc)

\* CurrSense::getPhaseCurrents
getPhaseCurrents(va, vb, vc) ==
    LET wired == IsSet(pins[3])
    IN  /\ cs_call.op # "unbuilt"
        /\ currents' = <<CurrentOf(va, offsets[1]), CurrentOf(vb, offsets[2]),
                         IF ~wired THEN 0 ELSE CurrentOf(vc, offsets[3])>>
        /\ cs_call' = [op |-> "sample",
                       reads |-> <<1, 1, IF wired THEN 1 ELSE 0>>,
                       sum |-> <<0, 0, 0>>,
                       v |-> <<va, vb, IF wired THEN vc ELSE 0>>,
                       prev |-> offsets]
        /\ UNCHANGED <<pins, offsets>>
        /\ UNCHANGED <<bleVars, loopVars, serialVars, focVars, codecVars,
                       ctlVars, raceVars>>

GetPhaseCurrents ==
    \E va \in Readings, vb \in Readings, vc \in Readings :
        getPhaseCurrents(va, vb, vc)

NextSense ==
    \/ CurrSense
    \/ CalibrateOffsets
    \/ GetPhaseCurrents

SpecSense == Init /\ [][NextSense]_vars

----------------------------------------------------------------------------
(* Properties.  The frame seen by the last decode call is described here    *)
(* from its bytes alone, independently of the decoder's operators.          *)

\* byte i (0-based) of the frame of the last decode call
RxByte(i) == rx[i + 1]

\* big-endian two's-complement reading of two bytes
Signed16(hi, lo) == (hi * 256 + lo) - (IF hi >= 128 THEN 65536 ELSE 0)

\* the frame opens with the marker and a recognised packet type
RxFramed ==
    /\ Len(rx) >= 3
    /\ RxByte(0) = FRAME_HEAD_0
    /\ RxByte(1) = FRAME_HEAD_1
    /\ RxByte(2) \in {PACKET_TYPE_SINGLE, PACKET_TYPE_MULTI,
                      PACKET_TYPE_MULTI_STRUCT}

\* position of the packet-type byte
RxBase == IF RxFramed THEN 2 ELSE 0

RxType == RxByte(RxBase)

\* the decoder-visible state is what it was before the call
StateUnchanged ==
    /\ ble_motor_target = pre.target
    /\ new_command = pre.new_command
    /\ data_scale_type = pre.dst
    /\ last_multi_struct_cmd = pre.last

\* a SINGLE frame long enough to carry its five fields.  The fields sit at
\* type+1 (data type), +2 (device id), +3, +4 (value) when framed; the
\* unframed form carries the device id at +1 and the data type at +2
RxSingle ==
    /\ op = "parse"
    /\ Len(rx) >= 3
    /\ RxType = PACKET_TYPE_SINGLE
    /\ Len(rx) >= (IF RxFramed THEN 7 ELSE 6)

RxSingleId == IF RxFramed THEN RxByte(4) ELSE RxByte(1)

RxSingleTag == IF RxFramed THEN RxByte(3) ELSE RxByte(2)

RxSingleRaw ==
    IF RxFramed THEN Signed16(RxByte(5), RxByte(6))
    ELSE Signed16(RxByte(3), RxByte(4))

\* C1: a SINGLE frame of sufficient length addressed to this device whose
\* value differs from the stored setpoint by more than 0.001 stores the signed
\* 16-bit value divided by the scale of the SINGLE branch (the angle scale),
\* raises new_command and hands exactly one "<id>:SINGLE:<value>" response to
\* sendBLEResponse, which transmits it when a peer is connected.
C1_SingleApplied ==
    LET v == (RxSingleRaw * UNIT) \div ANGLE_SCALE
    IN  (RxSingle /\ RxSingleId = MY_DEVICE_ID /\ Abs(v - pre.target) > EPS_BLE)
            => /\ ble_motor_target = v
               /\ new_command
               /\ acks = <<[id |-> MY_DEVICE_ID, kind |-> "SINGLE",
                            val |-> v \div 10]>>
               /\ deviceConnected => sent = acks

\* AA 55 01 00 06 00 64 on device 6: target 10.0, response "6:SINGLE:10.00"
C1_Witness ==
    /\ op = "parse"
    /\ rx = <<170, 85, 1, 0, 6, 0, 100>>
    /\ pre.target = 0
    /\ ble_motor_target = 10 * UNIT
    /\ new_command
    /\ sent = <<[id |-> 6, kind |-> "SINGLE", val |-> 1000]>>

\* C2 (as claimed): only the control tick clears the dirty flag; no decode
\* call takes new_command from true to false, and a call that leaves the
\* setpoint unchanged leaves the flag unchanged.
C2_OnlyTickClears ==
    op = "parse" =>
        /\ pre.new_command => new_command
        /\ ble_motor_target = pre.target => new_command = pre.new_command

\* C3: a frame for this device whose value is within the tolerance of the
\* stored setpoint (the else arm of the de-duplication test) is answered with
\* one response, leaves the setpoint as stored and does not raise new_command,
\* in each of the four decode paths.
C3_RepeatNotRearmed ==
    (op = "parse" /\ branch = "repeat")
        => /\ path \in {"single", "slice", "legacy", "struct"}
           /\ Len(acks) = 1
           /\ acks[1].kind \in {"SINGLE", "MULTI", "MULTI_STRUCT"}
           /\ acks[1].val \in {Fmt2(pre.target, u) : u \in BOOLEAN}
           /\ ble_motor_target = pre.target
           /\ ~pre.new_command => ~new_command

\* a second consecutive repeat: the flag was already down before the call
C3_Witness ==
    /\ op = "parse"
    /\ branch = "repeat"
    /\ path = "struct"
    /\ pre.target # 0
    /\ ~pre.new_command
    /\ ~new_command
    /\ Len(sent) = 1

\* a framed MULTI frame that passes the slice validation: start id in
\* 1..MAX_MOTORS, count at least one, length exactly 6 + 2 * count
RxSlice ==
    /\ op = "parse"
    /\ RxFramed
    /\ RxType = PACKET_TYPE_MULTI
    /\ Len(rx) >= 6
    /\ RxByte(4) >= 1
    /\ RxByte(4) <= MAX_MOTORS
    /\ RxByte(5) >= 1
    /\ Len(rx) = 6 + 2 * RxByte(5)

RxSliceStart == RxByte(4)

RxSliceCount == RxByte(5)

\* this device's id lies in [start, start + count)
RxSliceHolds(x) == RxSliceStart <= x /\ x < RxSliceStart + RxSliceCount

\* a MULTI_STRUCT frame whose length covers the entries it declares
RxStruct ==
    /\ op = "parse"
    /\ Len(rx) >= 3
    /\ RxType = PACKET_TYPE_MULTI_STRUCT
    /\ Len(rx) >= RxBase + 3
    /\ Len(rx) >= RxBase + 3 + 3 * RxByte(RxBase + 2)

RxStructCount == RxByte(RxBase + 2)

\* 0-based position of the device-id byte of entry i
RxEntry(i) == RxBase + 3 + 3 * i

\* the entries addressed to device x
RxEntriesFor(x) == {i \in 0..(RxStructCount - 1) : RxByte(RxEntry(i)) = x}

\* the scale a data-type tag selects
TagScale(tag) ==
    IF tag = DATA_TYPE_ANGLE THEN ANGLE_SCALE
    ELSE IF tag = DATA_TYPE_VELOCITY THEN VELOCITY_SCALE
    ELSE CURRENT_SCALE

\* C4 (as claimed): an addressing miss (SINGLE for another device, MULTI
\* slice whose range does not hold this device, MULTI_STRUCT without an entry
\* for this device) changes no decoder state and calls sendBLEResponse not
\* at all.
C4_MissIsSilent ==
    (\/ RxSingle /\ RxSingleId # MY_DEVICE_ID
     \/ RxSlice /\ ~RxSliceHolds(MY_DEVICE_ID)
     \/ RxStruct /\ RxEntriesFor(MY_DEVICE_ID) = {})
        => StateUnchanged /\ acks = <<>>

\* C5 (as claimed): every framed MULTI slice frame with start id in
\* 1..MAX_MOTORS, count in 1..255 and exact length whose range holds this
\* device applies entry (id - start), scaled by the data type's factor, with
\* one "<id>:MULTI:<value>" response, also when start + count - 1 passes 255.
C5_SliceApplied ==
    LET k == MY_DEVICE_ID - RxSliceStart
        raw == Signed16(RxByte(6 + 2 * k), RxByte(7 + 2 * k))
        v == (raw * UNIT) \div TagScale(RxByte(3))
    IN  (RxSlice /\ RxSliceHolds(MY_DEVICE_ID))
            => /\ Len(acks) = 1
               /\ acks[1].id = MY_DEVICE_ID
               /\ acks[1].kind = "MULTI"
               /\ Abs(v - pre.target) > EPS_BLE
                    => ble_motor_target = v /\ new_command
               /\ Abs(v - pre.target) < EPS_BLE
                    => ble_motor_target = pre.target

\* C6: in a MULTI_STRUCT frame whose length covers its declared entries only
\* the first entry for this device is applied: it alone determines the
\* setpoint, the flag, last_multi_struct_cmd and the single
\* "<id>:MULTI_STRUCT:<value>" response; no frame gets more than one response.
C6_FirstMatchWins ==
    LET es == RxEntriesFor(MY_DEVICE_ID)
        f == CHOOSE i \in es : \A j \in es : i <= j
        raw == Signed16(RxByte(RxEntry(f) + 1), RxByte(RxEntry(f) + 2))
        v == (raw * UNIT) \div TagScale(RxByte(RxBase + 1))
    IN  /\ op = "parse" => Len(acks) <= 1
        /\ (RxStruct /\ es # {})
            => /\ Len(acks) = 1
               /\ acks[1].id = MY_DEVICE_ID
               /\ acks[1].kind = "MULTI_STRUCT"
               /\ last_multi_struct_cmd.raw_value = raw
               /\ last_multi_struct_cmd.scaled_value = v
               /\ last_multi_struct_cmd.count = RxStructCount
               /\ ble_motor_target \in {v, pre.target}
               /\ Abs(v - pre.target) > EPS_BLE
                    => ble_motor_target = v /\ new_command
               /\ Abs(v - pre.target) < EPS_BLE
                    => ble_motor_target = pre.target

\* two entries for this device with different values: the first is stored
C6_Witness ==
    /\ RxStruct
    /\ Cardinality(RxEntriesFor(MY_DEVICE_ID)) = 2
    /\ RxByte(RxEntry(0)) = MY_DEVICE_ID
    /\ RxByte(RxEntry(1)) = MY_DEVICE_ID
    /\ RxByte(RxEntry(0) + 2) # RxByte(RxEntry(1) + 2)
    /\ last_multi_struct_cmd.raw_value = RxByte(RxEntry(0) + 2)
    /\ ble_motor_target = last_multi_struct_cmd.scaled_value
    /\ ble_motor_target # pre.target
    /\ new_command
    /\ Len(sent) = 1

\* a frame that is too short for its type or declares more than it carries
RxMalformed ==
    /\ op = "parse"
    /\ \/ Len(rx) < 3
       \/ /\ Len(rx) >= 3
          /\ \/ /\ RxType = PACKET_TYPE_SINGLE
                /\ Len(rx) < (IF RxFramed THEN 7 ELSE 6)
             \/ /\ RxType = PACKET_TYPE_MULTI
                /\ Len(rx) < RxBase + 2
             \/ /\ RxType = PACKET_TYPE_MULTI
                /\ RxFramed
                /\ Len(rx) >= 6
                /\ Len(rx) # LEGACY_LEN
                /\ Len(rx) < 6 + 2 * RxByte(5)
             \/ /\ RxType = PACKET_TYPE_MULTI_STRUCT
                /\ Len(rx) < RxBase + 3
             \/ /\ RxType = PACKET_TYPE_MULTI_STRUCT
                /\ Len(rx) >= RxBase + 3
                /\ Len(rx) < RxBase + 3 + 3 * RxByte(RxBase + 2)

\* C7 (as claimed): a malformed frame of any packet type is dropped with no
\* change of ble_motor_target, new_command, data_scale_type or
\* last_multi_struct_cmd and without a response.
C7_MalformedDropped == RxMalformed => StateUnchanged /\ acks = <<>>

\* C8: every byte index a decode call reads lies inside the received frame,
\* whatever its length and whatever its header fields declare.
C8_ReadsInBounds ==
    op = "parse" => \A i \in reads : 0 <= i /\ i < Len(rx)

\* a MULTI_STRUCT frame that declares more entries than it carries was
\* decoded as far as its count byte and no further
C8_Witness ==
    /\ op = "parse"
    /\ Len(rx) >= 3
    /\ RxType = PACKET_TYPE_MULTI_STRUCT
    /\ Len(rx) >= RxBase + 3
    /\ Len(rx) < RxBase + 3 + 3 * RxByte(RxBase + 2)
    /\ RxBase + 2 \in reads
    /\ Len(rx) - 1 \in reads

\* C9: a frame of three bytes or more whose packet-type byte is none of the
\* three types gets exactly one "<id>:ERROR:UNKNOWN_PACKET" response and
\* changes no decoder state; AA 55 followed by an unrecognised third byte
\* counts as unframed with type 0xAA and is answered the same way.
C9_UnknownAnswered ==
    LET known == {PACKET_TYPE_SINGLE, PACKET_TYPE_MULTI,
                  PACKET_TYPE_MULTI_STRUCT}
        marked == RxByte(0) = FRAME_HEAD_0 /\ RxByte(1) = FRAME_HEAD_1
        typ == IF marked /\ RxByte(2) \in known THEN RxByte(2) ELSE RxByte(0)
    IN  (op = "parse" /\ Len(rx) >= 3 /\ typ \notin known)
            => /\ acks = <<[id |-> MY_DEVICE_ID, kind |-> "ERROR:UNKNOWN_PACKET",
                            val |-> 0]>>
               /\ deviceConnected => sent = acks
               /\ StateUnchanged
               /\ marked => typ = FRAME_HEAD_0

\* AA 55 09 ... was answered with the error response after a command had
\* been stored
C9_Witness ==
    /\ op = "parse"
    /\ Len(rx) >= 3
    /\ RxByte(0) = FRAME_HEAD_0
    /\ RxByte(1) = FRAME_HEAD_1
    /\ RxByte(2) = 9
    /\ pre.target # 0
    /\ pre.new_command
    /\ new_command
    /\ Len(sent) = 1
    /\ sent[1].kind = "ERROR:UNKNOWN_PACKET"

\* C10 (as claimed): the data-type tag selects the scale for SINGLE frames
\* as for the other packet types, and data_scale_type is set to match the
\* tag.
C10_SingleScaledByTag ==
    LET v == (RxSingleRaw * UNIT) \div TagScale(RxSingleTag)
    IN  (RxSingle /\ RxSingleId = MY_DEVICE_ID
            /\ RxSingleTag \in {DATA_TYPE_ANGLE, DATA_TYPE_VELOCITY,
                                DATA_TYPE_CURRENT})
            => /\ data_scale_type = RxSingleTag
               /\ Abs(v - pre.target) > EPS_BLE => ble_motor_target = v

\* C11 (as claimed): an unframed legacy MULTI frame (type, data type
\* velocity, ten packed values) gives a device with id X in 1..10 its X-th
\* value scaled by the velocity factor, answered like any applied MULTI value.
C11_UnframedLegacyDecoded ==
    LET at == 2 + 2 * (MY_DEVICE_ID - 1)
        raw == Signed16(RxByte(at), RxByte(at + 1))
        v == (raw * UNIT) \div VELOCITY_SCALE
    IN  (/\ op = "parse"
         /\ Len(rx) = 2 + 2 * LEGACY_MOTORS
         /\ ~RxFramed
         /\ RxByte(0) = PACKET_TYPE_MULTI
         /\ RxByte(1) = DATA_TYPE_VELOCITY
         /\ MY_DEVICE_ID \in 1..LEGACY_MOTORS)
            => /\ Abs(v - pre.target) > EPS_BLE
                    => ble_motor_target = v /\ new_command
               /\ Abs(v - pre.target) < EPS_BLE => ble_motor_target = pre.target

\* C12 (as claimed): the unframed SINGLE frame 01 DT ID VH VL xx is decoded
\* with the field order of the framed one (data type at +1, device id at +2,
\* value at +3, +4): it addresses this device exactly when ID is its id, and
\* then yields the target and the response of AA 55 01 DT ID VH VL.
C12_SingleSameOffsets ==
    LET v == (Signed16(RxByte(3), RxByte(4)) * UNIT) \div ANGLE_SCALE
    IN  (/\ op = "parse"
         /\ Len(rx) = 6
         /\ ~RxFramed
         /\ RxByte(0) = PACKET_TYPE_SINGLE)
            => IF RxByte(2) = MY_DEVICE_ID
                  THEN /\ Len(acks) = 1
                       /\ acks[1].kind = "SINGLE"
                       /\ Abs(v - pre.target) > EPS_BLE
                            => ble_motor_target = v /\ new_command
                  ELSE acks = <<>> /\ ble_motor_target = pre.target

\* a step of the control tick's consumption: no decode call is open before
\* or after it
TickStep == op = "idle" /\ op' = "idle"

\* C13 (as claimed): the consumer converts the stored setpoint according to
\* data_scale_type; a velocity or current setpoint is not turned into a
\* position target by the angle conversion (gear ratio, degrees to radians).
C13_TagSelectsConversion ==
    [][(/\ TickStep
        /\ new_command
        /\ data_scale_type # DATA_TYPE_ANGLE)
            => \/ motor_target' = motor_target
               \/ motor_target' # ble_motor_target * GEAR_RATIO]_vars

\* C16: with new_command down the consumption changes nothing; with
\* new_command up it lowers the flag, converts ble_motor_target by
\* GEAR_RATIO * pi / 180 and writes the result to motor_target (and keeps it
\* as the last applied wireless target) only when it differs from the last
\* applied one by more than the tolerance.
C16_TickConsumes ==
    [][TickStep =>
        LET rad == ble_motor_target * GEAR_RATIO
        IN  /\ UNCHANGED <<ble_motor_target, data_scale_type,
                           last_multi_struct_cmd, deviceConnected>>
            /\ ~new_command => UNCHANGED <<new_command, motor_target, last_target>>
            /\ new_command =>
                /\ ~new_command'
                /\ IF Abs(rad - last_target) > EPS_RAD
                      THEN motor_target' = rad /\ last_target' = rad
                      ELSE UNCHANGED <<motor_target, last_target>>]_vars

\* a stored 10.0 degrees has been consumed and converted
C16_Witness ==
    /\ op = "idle"
    /\ ~new_command
    /\ ble_motor_target = 10 * UNIT
    /\ motor_target = 10 * UNIT * 225
    /\ last_target = motor_target

\* C14: a response is transmitted only during the decode call that produced
\* it and only with a peer connected; a command decoded without a peer is
\* stored all the same, transmits nothing, and nothing is transmitted for it
\* later (no state outside a decode call carries a transmission).
C14_NoQueuedResponse ==
    /\ (op = "parse" /\ ~deviceConnected) => sent = <<>>
    /\ sent # <<>> => (op = "parse" /\ deviceConnected /\ sent = acks)
    /\ (op = "parse" /\ branch = "stored")
            => ble_motor_target # pre.target /\ new_command /\ Len(acks) = 1

\* a command stored while no peer was connected, after an earlier command
\* had been answered to a connected peer
C14_Witness ==
    /\ op = "parse"
    /\ ~deviceConnected
    /\ branch = "stored"
    /\ pre.target # 0
    /\ ble_motor_target # pre.target
    /\ new_command
    /\ Len(acks) = 1
    /\ sent = <<>>

\* C15: a heartbeat "<id>:HEARTBEAT" is transmitted only with a peer
\* connected and only when more than 5000 ms have passed since the one
\* before; decode calls and their responses leave the heartbeat, its count,
\* the time of the last one and the clock alone.
C15_Heartbeat ==
    [][/\ beats' # beats
            => /\ deviceConnected
               /\ beats' = beats + 1
               /\ heartbeat' = <<[id |-> MY_DEVICE_ID, kind |-> "HEARTBEAT"]>>
               /\ since < 0 \/ since > HEARTBEAT_PERIOD
               /\ sent' = sent
       /\ (heartbeat' # <<>> /\ heartbeat' # heartbeat) => beats' # beats
       /\ (op = "parse" \/ op' = "parse")
            => UNCHANGED <<heartbeat, beats, lastHeartbeat, now, since>>]_vars

\* a second heartbeat has been sent, with an answered command in between
C15_Witness ==
    /\ beats = 2
    /\ heartbeat # <<>>
    /\ since = 0
    /\ deviceConnected
    /\ new_command
    /\ ble_motor_target = 10 * UNIT

\* positions of the newlines among the characters read so far
ReadNewlines == {i \in 1..Len(consumed) : consumed[i] = "\n"}

LastNewline == CHOOSE i \in ReadNewlines : \A j \in ReadNewlines : j <= i

\* the last complete line read, without its newline
LastLine ==
    LET before == {i \in ReadNewlines : i < LastNewline}
        from == IF before = {} THEN 1
                ELSE 1 + (CHOOSE i \in before : \A j \in before : j <= i)
    IN  SubSeq(consumed, from, LastNewline - 1)

\* the characters read after the last newline
OpenLine ==
    IF ReadNewlines = {} THEN consumed
    ELSE SubSeq(consumed, LastNewline + 1, Len(consumed))

\* C17 (state part): whatever the division of the characters into calls,
\* motor_target is the numeric value of the last complete line read, the
\* buffer holds exactly the characters of the line still open, and the
\* outcome is that of one call reading all the characters at once.
C17_SerialSetsTarget ==
    /\ received_chars = OpenLine
    /\ ReadNewlines # {} => motor_target = FromRad(toDouble(LastLine))
    /\ ReadNewlines = {} => motor_target = 0
    /\ ReadLoop(consumed, <<>>, 0) = [buf |-> received_chars, mt |-> motor_target]

\* C17 (step part): a call of readSerialCommand leaves ble_motor_target,
\* new_command and data_scale_type as they are.
C17_SerialBypassesWireless ==
    [][consumed' # consumed
            => UNCHANGED <<ble_motor_target, new_command, data_scale_type,
                           last_target>>]_vars

\* C17: the serial channel sets the pipeline target directly from each
\* complete line and bypasses the wireless path.
C17_SerialChannel == []C17_SerialSetsTarget /\ C17_SerialBypassesWireless

\* "-1" has been applied while a wireless command is pending, and the
\* characters "1." of the next line are kept
C17_Witness ==
    /\ consumed = <<"-", "1", "\n", "1", ".">>
    /\ serial_in = <<>>
    /\ received_chars = <<"1", ".">>
    /\ motor_target = 0 - RAD_UNITS
    /\ new_command
    /\ ble_motor_target = 10 * UNIT

\* C18 (as claimed): every value electricalAngle() returns lies in [0, 2*pi),
\* whatever the sensor reading, the pole pair count, the direction sign and
\* the stored zero offset: it is never negative and never reaches 2*pi (the
\* largest whole number of units below 2*pi is TWO_PI).
C18_ElectricalAngleInRange == 0 <= angle_el /\ angle_el <= TWO_PI

\* C19: after a setTorque call with Uq = 0, at any electrical angle and any
\* positive supply, the three phase voltages are half the supply the call
\* read and the three duty fractions are one half.
C19_ZeroTorqueCentred ==
    (torque_call.made /\ torque_call.Uq = 0)
        => /\ 2 * Ua = torque_call.supply
           /\ 2 * Ub = torque_call.supply
           /\ 2 * Uc = torque_call.supply
           /\ dc = <<UNIT \div 2, UNIT \div 2, UNIT \div 2>>

\* setTorque(0, theta) at theta = -1 rad and a 12 V supply: 6 V on each
\* phase, duty one half, 127 of 255 on each channel
C19_Witness ==
    /\ torque_call.made
    /\ torque_call.Uq = 0
    /\ torque_call.angle_el = 0 - RAD
    /\ torque_call.supply = 12 * UNIT
    /\ Ua = 6 * UNIT
    /\ dc = <<UNIT \div 2, UNIT \div 2, UNIT \div 2>>
    /\ ledc = <<127, 127, 127>>

\* the value handed to floatToInt16, times the scale, lies in the signed
\* 16-bit range once truncated (value in eighths of the wire unit)
CodecInRange ==
    /\ codec.value <= (EIGHTH * (INT16_MAX + 1) - 1) \div codec.scale
    /\ 0 - codec.value <= (EIGHTH * (1 - INT16_MIN) - 1) \div codec.scale

\* C20 (as claimed): a value whose scaled value lies in the signed 16-bit
\* range comes back from int16ToFloat(floatToInt16(V, scale), scale) less
\* than one quantization step (1 / scale) away from V; a value above the
\* range is encoded as 32767 and a value below it as -32768.
C20_RoundTripAndSaturation ==
    /\ (codec.stage = "back" /\ CodecInRange)
        => Abs(codec.value * UNIT - EIGHTH * codec.back) * codec.scale
               < EIGHTH * UNIT
    /\ (codec.stage # "value" /\ ~CodecInRange)
        => codec.raw = (IF codec.value > 0 THEN INT16_MAX ELSE INT16_MIN)

\* a MULTI frame long enough to be dispatched
RxMulti ==
    /\ op = "parse"
    /\ Len(rx) >= 3
    /\ RxType = PACKET_TYPE_MULTI

\* a MULTI frame that fails the slice validation, is framed and is exactly
\* 24 bytes long
RxLegacy ==
    /\ RxMulti
    /\ ~RxSlice
    /\ RxFramed
    /\ Len(rx) = LEGACY_LEN

RxStructMatch == RxStruct /\ RxEntriesFor(MY_DEVICE_ID) # {}

\* C22: every MULTI_STRUCT frame that contains an entry for this device
\* overwrites last_multi_struct_cmd with the packet type, the own device id,
\* the frame's data type, the entry's raw 16-bit value, its scaled value and
\* the entry count, also when the value repeats the setpoint; every other
\* frame (SINGLE, MULTI, unknown, malformed, MULTI_STRUCT without an entry
\* for this device) leaves last_multi_struct_cmd unchanged.
C22_StructRecord ==
    op = "parse" =>
        /\ RxStructMatch =>
              \E i \in RxEntriesFor(MY_DEVICE_ID) :
                LET raw == Signed16(RxByte(RxEntry(i) + 1), RxByte(RxEntry(i) + 2))
                IN  last_multi_struct_cmd =
                        [packet_type |-> PACKET_TYPE_MULTI_STRUCT,
                         device_id |-> MY_DEVICE_ID,
                         data_type |-> RxByte(RxBase + 1),
                         raw_value |-> raw,
                         scaled_value |-> (raw * UNIT) \div TagScale(RxByte(RxBase + 1)),
                         count |-> RxStructCount]
        /\ ~RxStructMatch => last_multi_struct_cmd = pre.last

\* a MULTI_STRUCT frame repeats the setpoint (de-duplicated) and still
\* replaces an earlier record
C22_Witness ==
    /\ op = "parse"
    /\ RxStructMatch
    /\ branch = "repeat"
    /\ ~new_command
    /\ ble_motor_target = pre.target
    /\ pre.last # NoStructCmd
    /\ last_multi_struct_cmd # pre.last
    /\ last_multi_struct_cmd.scaled_value = ble_motor_target

\* C23: in every call of setMotorVelocityWithAngle, whatever the velocity
\* loop returns, the current reference passed to setMotorTorque lies in
\* [-I_MAX_CMD, I_MAX_CMD] = [-6.5 A, 6.5 A].
C23_CurrentReferenceClamped ==
    iq_ref.made =>
        /\ 0 - I_MAX_CMD <= iq_ref.passed
        /\ iq_ref.passed <= I_MAX_CMD
        /\ 2 * I_MAX_CMD = 13 * UNIT

\* the velocity loop returned 100 A and 6.5 A was passed on
C23_Witness ==
    /\ iq_ref.made
    /\ iq_ref.out = 100 * UNIT
    /\ iq_ref.passed = I_MAX_CMD
    /\ torque_call.made

\* C24: in every setTorque call with a positive supply voltage, Uq is clamped
\* to [-Vsupply/2, Vsupply/2], each phase voltage is clamped to [0, Vsupply]
\* in setPwm, each duty-cycle fraction lies in [0, 1], each value written to
\* the PWM driver lies in [0, 255], and exactly three writes happen, to
\* channels 0, 1 and 2.
C24_TorqueOutputsBounded ==
    (torque_call.made /\ torque_call.supply > 0) =>
        /\ 0 - torque_call.supply <= 2 * pwm.Uq
        /\ 2 * pwm.Uq <= torque_call.supply
        /\ (Abs(2 * torque_call.Uq) <= torque_call.supply)
                => pwm.Uq = torque_call.Uq
        /\ \A i \in 1..3 :
            /\ 0 <= pwm.U[i] /\ pwm.U[i] <= torque_call.supply
            /\ 0 <= dc[i] /\ dc[i] <= UNIT
            /\ 0 <= ledc[i] /\ ledc[i] <= 255
        /\ Len(pwm.writes) = 3
        /\ \A i \in 1..3 :
            /\ pwm.writes[i][1] = i - 1
            /\ pwm.writes[i][2] = ledc[i]

\* setTorque(20, 3*pi/2) at 12 V: Uq is cut to 6 V, phase A reaches the
\* supply rail and channel 0 is written 255
C24_Witness ==
    /\ torque_call.made
    /\ torque_call.Uq = 20 * UNIT
    /\ torque_call.angle_el = _3PI_2
    /\ torque_call.supply = 12 * UNIT
    /\ pwm.Uq = 6 * UNIT
    /\ pwm.U[1] = 12 * UNIT
    /\ dc[1] = UNIT
    /\ pwm.writes[1] = <<0, 255>>
    /\ Len(pwm.writes) = 3

\* the statements executed so far in the calibrateSensor call, by name
StepNames == [i \in 1..Len(steps) |-> steps[i].stmt]

\* the order of statements the claim gives
ClaimedOrder ==
    <<"store", "setTorque3", "delay", "Sensor_update", "zero", "setTorque0">>

\* a calibrateSensor call has returned
CalDone == cal_pc = "idle" /\ steps # <<>>

C25_Order ==
    /\ Len(steps) <= Len(ClaimedOrder)
    /\ StepNames = SubSeq(ClaimedOrder, 1, Len(steps))
    /\ cal_pc # "idle" => cal_pc = ClaimedOrder[Len(steps) + 1]
    /\ CalDone => Len(steps) = Len(ClaimedOrder)
    /\ Len(steps) >= 1 => PP = steps[1].a /\ DIR = steps[1].b
    /\ Len(steps) >= 2 => steps[2].a = 3 * UNIT /\ steps[2].b = _3PI_2
    /\ Len(steps) \in 2..5
        => /\ torque_call.Uq = 3 * UNIT
           /\ torque_call.angle_el = _3PI_2
    /\ Len(steps) >= 3 => steps[3].a > 0
    /\ Len(steps) >= 5
        => /\ zero_electric_angle = steps[5].a
           /\ steps[5].a = electricalAngle(steps[4].a, PP, DIR, steps[5].b)
    /\ CalDone
        => /\ torque_call.Uq = 0
           /\ torque_call.angle_el = _3PI_2
           /\ dc = <<UNIT \div 2, UNIT \div 2, UNIT \div 2>>
           /\ Cardinality({i \in 1..Len(steps) : steps[i].stmt = "zero"}) = 1

\* zero_electric_angle is written only by the fifth statement of a call
C25_ZeroWrittenOnce ==
    zero_electric_angle' # zero_electric_angle
        => /\ Len(steps) = 4
           /\ Len(steps') = 5
           /\ steps'[5].stmt = "zero"

\* C25: calibrateSensor executes, in this order and once each: store pole
\* count and direction, setTorque(3, 3*pi/2), the settle delay, the sensor
\* refresh, zero_electric_angle = electricalAngle(), setTorque(0, 3*pi/2);
\* the refresh comes after the torque command and before the offset is
\* recorded, the offset is written once per call, and the last PWM command
\* of the call is the zero-torque one.
C25_CalibrationOrder == []C25_Order /\ [][C25_ZeroWrittenOnce]_vars

\* a call with two pole pairs has returned: the offset is the electrical
\* angle of the reading taken by the refresh, and the phases are centred
C25_Witness ==
    /\ CalDone
    /\ PP = 2
    /\ steps[4].a = RAD
    /\ mechanical_angle = RAD
    /\ zero_electric_angle = electricalAngle(RAD, 2, DIR, 0)
    /\ zero_electric_angle # 0
    /\ torque_call.Uq = 0
    /\ ledc = <<127, 127, 127>>

\* C26 (as claimed): calibrateOffsets stores for each wired channel the
\* arithmetic mean of its 1000 samples, whatever offset was stored before;
\* getPhaseCurrents yields (voltage - offset) / (R_shunt * A_amp) for it, zero
\* when the voltage equals the mean; a channel that was given no pin is not
\* sampled by either operation and its current is always 0.
C26_CurrentSenseZeroing ==
    \A ch \in 1..3 :
        /\ (Assigned[ch] /\ cs_call.op = "calibrate")
            => /\ cs_call.reads[ch] = calibration_rounds
               /\ calibration_rounds >= 500
               /\ offsets[ch] * calibration_rounds = cs_call.sum[ch] * OFFSET_UNIT
        /\ (Assigned[ch] /\ cs_call.op = "sample")
            => /\ cs_call.reads[ch] = 1
               /\ currents[ch] * SHUNT_MILLIOHM * AMP_GAIN
                    = (cs_call.v[ch] * OFFSET_UNIT - offsets[ch]) * 1000
               /\ cs_call.v[ch] * OFFSET_UNIT = offsets[ch] => currents[ch] = 0
        /\ ~Assigned[ch]
            => /\ cs_call.reads[ch] = 0
               /\ currents[ch] = 0

\* C27 (as claimed): no accepted command is lost.  Once a value is stored
\* with new_command up, every further frame decoded before the next control
\* tick (a repeat of the value, a frame for another device, a malformed
\* frame) leaves new_command up, and the next getSerialMotorTarget lowers
\* the flag and converts the stored setpoint, so that motor_target follows
\* it to within the tick's own tolerance.
C27_AcceptedCommandKept ==
    [][/\ (new_command /\ op' = "parse") => new_command'
       /\ (TickStep /\ new_command)
            => /\ ~new_command'
               /\ ~RadDiffers(RadUnits(ble_motor_target), last_target')
               /\ motor_target' = last_target']_vars

\* the control tick has converted the value v: motor_target holds it, to
\* within the tick's tolerance
Converted(v) ==
    /\ ~RadDiffers(RadUnits(v), last_target)
    /\ motor_target = last_target

\* C28: under every interleaving, statement by statement, of a decode call
\* that accepts a changed value (write ble_motor_target, then raise
\* new_command) with a getSerialMotorTarget call (test new_command, lower
\* it, read ble_motor_target), the value is converted by that tick or by
\* the next: the stored value is never left unconverted with new_command
\* down, no decoder about to raise the flag and no tick about to read or
\* apply it.
C28_HandOverKeepsValue ==
    \/ Converted(ble_motor_target)
    \/ new_command
    \/ dec_pc = "flag"
    \/ tick_pc = "read"
    \/ tick_pc = "apply" /\ tick_deg = ble_motor_target

\* the tick has lowered the flag, the decoder has then stored 20.0 over the
\* pending 10.0 and has not yet raised the flag: the tick is about to read
\* the new value, and the flag will be raised for the next tick as well
C28_Witness ==
    /\ tick_pc = "read"
    /\ dec_pc = "flag"
    /\ ~new_command
    /\ ble_motor_target = 20 * UNIT
    /\ dec_target = 20 * UNIT
    /\ motor_target = 0
    /\ ~Converted(ble_motor_target)

\* C29 (as claimed): no framed 24-byte MULTI frame of ten values is taken by
\* the slice branch; on every such frame this device applies (or
\* de-duplicates) the value at index id - 1, bytes 4 + 2 * (id - 1) and the
\* next, and answers once.
C29_LegacyUnambiguous ==
    LET k == MY_DEVICE_ID - 1
        raw == Signed16(RxByte(4 + 2 * k), RxByte(5 + 2 * k))
        v == (raw * UNIT) \div TagScale(RxByte(3))
    IN  (RxMulti /\ RxFramed /\ Len(rx) = LEGACY_LEN)
            => /\ path \notin {"slice", "slice_miss", "slice_bounds"}
               /\ Len(acks) = 1
               /\ acks[1].kind = "MULTI"
               /\ Abs(v - pre.target) > EPS_BLE
                    => ble_motor_target = v /\ new_command
               /\ Abs(v - pre.target) < EPS_BLE
                    => ble_motor_target = pre.target

\* C30 (as claimed): data_scale_type changes only in a decode call that also
\* applies or de-duplicates a value for this device, and a SINGLE frame that
\* updates the setpoint leaves data_scale_type at that frame's data type.
C30_ScaleTypeFollowsTarget ==
    /\ (op = "parse" /\ data_scale_type # pre.dst)
            => branch \in {"stored", "repeat"}
    /\ (RxSingle /\ RxSingleId = MY_DEVICE_ID /\ branch = "stored"
            /\ RxSingleTag \in DataTypes)
            => data_scale_type = RxSingleTag

\* a step of getSerialMotorTarget that found new_command set: among the steps
\* taken outside a decode call only this one lowers the flag
TickConsumed == TickStep /\ new_command /\ ~new_command'

\* C31 (as claimed): after any getSerialMotorTarget call that found
\* new_command set, motor_target equals ble_motor_target * GEAR_RATIO * pi/180
\* within the tolerance, whatever wireless frames, serial commands and ticks
\* came before.
C31_TickFollowsWireless ==
    [][TickConsumed
        => Abs(motor_target' - ble_motor_target * GEAR_RATIO) <= EPS_RAD]_vars

\* the stored offset is the normalised electrical angle of the reading taken
\* at hold time alone
C32_OffsetFromReading ==
    Len(steps) >= 5
        => zero_electric_angle = normalizeAngle(RoundF(DIR * PP * steps[4].a))

\* with the reading taken at hold time, electricalAngle() is 0
C32_AngleAtHoldIsZero ==
    Len(steps) >= 5
        => electricalAngle(steps[4].a, PP, DIR, zero_electric_angle) = 0

\* C32 (as claimed): after every run of calibrateSensor, the first and any
\* later one, zero_electric_angle equals normalize(PP * DIR * mechanicalAngle)
\* for the reading taken at hold time, whatever offset was stored before, and
\* electricalAngle() at that reading is 0.
C32_ZeroFromReadingOnly == C32_OffsetFromReading /\ C32_AngleAtHoldIsZero
====
